---------------------------- MODULE Spec2Model ----------------------------
(***************************************************************************)
(* A model of the Rust-git repository engine: the loose object store, the  *)
(* refs and HEAD, the staging index, the working tree, commit, checkout,   *)
(* merge, bundle ingest (fetch and push mode) and repack/gc.               *)
(*                                                                         *)
(* One repository is modelled.  Its files are the variables below.  Every  *)
(* command (src/commands/*.rs) is one action that models the whole         *)
(* handler.  Bundles arrive from outside (the HTTP surface) and are drawn  *)
(* from a bounded set of sender snapshots.                                 *)
(*                                                                         *)
(* Object ids.  hash_object is SHA-1 over "TYPE SP LEN NUL PAYLOAD"; the   *)
(* model idealises it as an injective pairing of type and payload, so an   *)
(* id is the tuple <<type, payload>> and two objects share an id exactly   *)
(* when they have the same type and the same payload.  An object FILE is   *)
(* something else: the deflated frame, a record [type, data, enc] where    *)
(* enc names the deflate stream that was written (the same frame has more  *)
(* than one valid deflate stream).                                         *)
(***************************************************************************)
EXTENDS Integers, Sequences, FiniteSets, TLC

\* ------------------------------------------------------------------ bounds

\* The number of commands a behaviour runs (the depth of the exploration).
MaxOps == 3

\* The clock (seconds) runs over 0..MaxTime.
MaxTime == 1

\* The number of commits of a commit graph find_merge_base is applied to.
MaxCommits == 4

\* ------------------------------------------------------------ finite maps

EmptyMap == [x \in {} |-> x]

Put(f, k, v) == [x \in (DOMAIN f) \cup {k} |-> IF x = k THEN v ELSE f[x]]

Del(f, k) == [x \in (DOMAIN f) \ {k} |-> f[x]]

\* g laid over f: every key of g takes g's value.
Overlay(f, g) == [x \in (DOMAIN f) \cup (DOMAIN g) |-> IF x \in DOMAIN g THEN g[x] ELSE f[x]]

\* g laid under f: a key f already holds keeps f's value.
Underlay(f, g) == [x \in (DOMAIN f) \cup (DOMAIN g) |-> IF x \in DOMAIN f THEN f[x] ELSE g[x]]

Range(s) == {s[i] : i \in DOMAIN s}

\* ---------------------------------------------------------------- universe

Branches == {"feat", "master"}

\* Branch names with a `/`: their ref is a file in a subdirectory of
\* refs/heads (update_ref creates the directories, refs.rs:53-58).
NestedBranches == {"topic/x"}

\* list_branches sorts the names (refs.rs:100); this is that order.
BranchOrder == <<"feat", "master">>

Paths == {"a", "b"}

\* String order of the file names, as sort_by(filename) yields it.
PathOrder == <<"a", "b">>

\* Blob payloads (file contents).
Contents == {"1", "2", "3"}

\* Contents the user writes into the working tree.
UserContents == {"1", "2"}

\* Commit messages; a message is a sequence of its parts.
Messages == {<<"m">>}

\* The deflate streams an object file may hold: "own" is what write_object
\* writes; "other" is another valid stream of the same frame.
Encodings == {"own", "other"}

\* ---------------------------------------------------------------- objects

\* hash_object: the id of (data, type).
hash_object(data, object_type) == <<object_type, data>>

NoOid == <<"none">>

TypeOf(oid) == oid[1]

DataOf(oid) == oid[2]

\* The file write_object writes for (data, type).
ObjectFile(data, object_type, enc) == [type |-> object_type, data |-> data, enc |-> enc]

\* write_object: the object store after the write; an existing file is kept.
write_object(objs, data, object_type) ==
    LET id == hash_object(data, object_type)
    IN IF id \in DOMAIN objs THEN objs
       ELSE Put(objs, id, ObjectFile(data, object_type, "own"))

write_blob(objs, data) == write_object(objs, data, "blob")

\* read_object succeeds: the loose file exists.  A pack written by repack is
\* an empty file, PackFile::read fails on it, so nothing is ever read from a
\* pack.
Readable(objs, oid) == oid \in DOMAIN objs

\* read_object: the object read (type and payload), for a readable id.
read_object(objs, oid) == [object_type |-> objs[oid].type, data |-> objs[oid].data]

\* ------------------------------------------------------------------ trees

FileMode == "100644"

\* One tree entry: mode, name, id.
TreeEntry(name, oid) == <<FileMode, name, oid>>

\* The payload write_tree builds from a path -> id map: one flat entry per
\* index path, sorted by name.
TreePayload(files) ==
    LET names == SelectSeq(PathOrder, LAMBDA p : p \in DOMAIN files)
    IN [i \in 1..Len(names) |-> TreeEntry(names[i], files[names[i]])]

TreeId(files) == hash_object(TreePayload(files), "tree")

EmptyTreeId == hash_object(<< >>, "tree")

\* get_tree_content / get_tree_files: the name -> id map parsed from a tree
\* payload.
ParseTree(payload) ==
    [n \in {payload[i][2] : i \in DOMAIN payload} |->
        (CHOOSE i \in DOMAIN payload : payload[i][2] = n) ]

TreeFilesOf(payload) ==
    LET idx == ParseTree(payload)
    IN [n \in DOMAIN idx |-> payload[idx[n]][3]]

\* ---------------------------------------------------------------- commits

InitAuthor == "Rust-Git <user@example.com>"

Author == "Rust-git <user@example.com>"

\* The payload write_commit composes.
CommitPayload(tree_id, parent_ids, message, author, ts) ==
    [tree |-> tree_id, parents |-> parent_ids, author |-> author,
     ts |-> ts, message |-> message]

CommitId(tree_id, parent_ids, message, author, ts) ==
    hash_object(CommitPayload(tree_id, parent_ids, message, author, ts), "commit")

\* write_commit(objects_dir, ...): writes the commit into the directory it is
\* given, and returns that directory's new content.
write_commit(dir, tree_id, parent_ids, message, author, ts) ==
    write_object(dir, CommitPayload(tree_id, parent_ids, message, author, ts), "commit")


\* ParentsOf that reads only the first parent line.
ParentsOfFirstOnly(objs, oid) ==
    IF Readable(objs, oid) /\ read_object(objs, oid).object_type = "commit"
    THEN LET ps == read_object(objs, oid).data.parents
         IN IF ps = << >> THEN << >> ELSE <<ps[1]>>
    ELSE << >>

\* The parent ids a walk reads from a commit: none when the object cannot be
\* read or is no commit.
ParentsOf(objs, oid) ==
    IF Readable(objs, oid) /\ read_object(objs, oid).object_type = "commit"
    THEN read_object(objs, oid).data.parents
    ELSE << >>

\* TreeOfCommit that finds no tree id.
TreeOfCommitNone(objs, oid) == NoOid

\* The tree id on the first line of a readable commit.
TreeOfCommit(objs, oid) == read_object(objs, oid).data.tree

\* is_ancestor(maybe_ancestor, descendant): a walk over the parent links of
\* descendant with a visited set; true when maybe_ancestor is reached, false
\* when the walk is exhausted.  A commit that cannot be read has no parents.
RECURSIVE AncestorWalk(_, _, _, _)
AncestorWalk(objs, queue, visited, target) ==
    IF queue = << >> THEN FALSE
    ELSE LET c == Head(queue)
             rest == Tail(queue)
         IN IF c = target THEN TRUE
            ELSE IF c \in visited THEN AncestorWalk(objs, rest, visited, target)
            ELSE AncestorWalk(objs, rest \o ParentsOf(objs, c), visited \cup {c}, target)

is_ancestor(objs, maybe_ancestor, descendant) ==
    AncestorWalk(objs, <<descendant>>, {}, maybe_ancestor)

\* AncestorSet that stops at the commits it starts from.
AncestorSetTipsOnly(objs, stack, seen) == seen \cup Range(stack)

\* find_merge_base, first loop: every id the walk from commit1 pops.
RECURSIVE AncestorSet(_, _, _)
AncestorSet(objs, stack, seen) ==
    IF stack = << >> THEN seen
    ELSE LET c == stack[Len(stack)]
             rest == SubSeq(stack, 1, Len(stack) - 1)
         IN IF c \in seen THEN AncestorSet(objs, rest, seen)
            ELSE AncestorSet(objs, rest \o ParentsOf(objs, c), seen \cup {c})

\* find_merge_base, second loop: the first id popped from commit2's walk that
\* is in ancestors1; NoOid for None.
RECURSIVE FirstCommon(_, _, _, _)
FirstCommon(objs, stack, visited, ancestors1) ==
    IF stack = << >> THEN NoOid
    ELSE LET c == stack[Len(stack)]
             rest == SubSeq(stack, 1, Len(stack) - 1)
         IN IF c \in visited THEN FirstCommon(objs, rest, visited, ancestors1)
            ELSE IF c \in ancestors1 THEN c
            ELSE FirstCommon(objs, rest \o ParentsOf(objs, c), visited \cup {c}, ancestors1)

find_merge_base(objs, commit1, commit2) ==
    FirstCommon(objs, <<commit2>>, {}, AncestorSet(objs, <<commit1>>, {}))

\* ------------------------------------------------------------------- state

VARIABLES
    HEAD,        \* .git/HEAD: <<"ref", branch>> or <<"oid", id>>
    heads,       \* .git/refs/heads/<branch> -> id
    remotes,     \* .git/refs/remotes/origin/<branch> -> id
    remoteHead,  \* .git/refs/remotes/origin/HEAD: <<"ref", branch>> or NoOid
    objects,     \* .git/objects/<xx>/<38>: id -> object file
    stray,       \* .git/<xx>/<38>: id -> object file (outside the object store)
    packs,       \* .git/objects/pack/pack-<ts>.pack (and .idx), by timestamp
    index,       \* .git/index: path -> blob id
    worktree,    \* the working tree: path -> content
    now,         \* the clock, in seconds
    nops,        \* commands run so far
    last,        \* the last command: its name, arguments and result
    srv          \* the requests the bundle server is handling, by request

vars == <<HEAD, heads, remotes, remoteHead, objects, stray, packs, index, worktree, now, nops, last, srv>>

\* ------------------------------------------------------------------- refs

\* read_ref(refs/heads/<branch>): the id, or NoOid when the file is missing.
read_ref(refmap, branch) == IF branch \in DOMAIN refmap THEN refmap[branch] ELSE NoOid

\* update_ref: the file is written, whatever it held.
update_ref(refmap, branch, commit_id) == Put(refmap, branch, commit_id)

create_branch(refmap, branch_name, commit_id) == update_ref(refmap, branch_name, commit_id)

\* get_head_commit: HEAD dereferenced once; NoOid when the branch has no ref.
get_head_commit(head, refmap) ==
    IF head[1] = "ref" THEN read_ref(refmap, head[2]) ELSE head[2]

\* current_branch: the branch HEAD names; NoBranch when HEAD is detached.
NoBranch == ""

current_branch(head) == IF head[1] = "ref" THEN head[2] ELSE NoBranch

\* list_branches: the names of the files directly under refs/heads, sorted
\* (refs.rs:87-100).  A branch whose name contains `/` is a file in a
\* subdirectory of refs/heads and is not listed.
list_branches(refmap) == SelectSeq(BranchOrder, LAMBDA b : b \in DOMAIN refmap)

\* The requests of the bundle server (bin/server.rs): each is a fetch or a
\* push with the bundle it posts, and is at some step of its handler.
Requests == {1, 2}

NoBundle == [objects |-> EmptyMap, packed_refs |-> << >>, head |-> NoOid]

Request(kind, pc, bundle, i) == [kind |-> kind, pc |-> pc, bundle |-> bundle, i |-> i]

\* No request is being handled: the repository is used from the command line.
NoRequests == [r \in Requests |-> Request("none", "done", NoBundle, 1)]

\* The record of the last command: its name, its argument, its result, and the
\* branch refs it started from.
Done(op, arg, res) == [op |-> op, arg |-> arg, res |-> res, pre |-> heads]

\* The null commit Repository::init writes at time t.
NullCommitId(t) == CommitId(EmptyTreeId, << >>, <<"Initial commit">>, InitAuthor, t)

\* InitObjects that writes the null commit and no empty tree.
InitObjectsNoTree(t) ==
    write_commit(EmptyMap, EmptyTreeId, << >>, <<"Initial commit">>, InitAuthor, t)

\* Repository::init at time t.
InitObjects(t) ==
    write_commit(write_object(EmptyMap, << >>, "tree"),
                 EmptyTreeId, << >>, <<"Initial commit">>, InitAuthor, t)

Init ==
    /\ HEAD = <<"ref", "master">>
    /\ heads = [b \in {"master"} |-> NullCommitId(0)]
    /\ remotes = EmptyMap
    /\ remoteHead = NoOid
    /\ objects = InitObjects(0)
    /\ stray = EmptyMap
    /\ packs = {}
    /\ index = EmptyMap
    /\ worktree = EmptyMap
    /\ now = 0
    /\ nops = 0
    /\ last = [op |-> "init", arg |-> "", res |-> "ok", pre |-> EmptyMap]
    /\ srv = NoRequests

\* Every command counts as one operation and runs at the time `now`.
Step ==
    /\ nops < MaxOps
    /\ nops' = nops + 1
    /\ now' = now
    /\ srv' = srv

\* A second passes.
Tick ==
    /\ nops < MaxOps
    /\ now < MaxTime
    /\ now' = now + 1
    /\ nops' = nops + 1
    /\ last' = Done("tick", "", "ok")
    /\ UNCHANGED <<HEAD, heads, remotes, remoteHead, objects, stray, packs, index, worktree, srv>>

\* `init` run again in the repository (commands/init.rs, Repository::init):
\* HEAD and refs/heads/master are rewritten; the index file is not touched.
ReInit ==
    LET t == now IN
    /\ Step
    /\ HEAD' = <<"ref", "master">>
    /\ objects' = write_commit(write_object(objects, << >>, "tree"),
                               EmptyTreeId, << >>, <<"Initial commit">>, InitAuthor, t)
    /\ heads' = Put(heads, "master", NullCommitId(t))
    /\ last' = Done("init", "", "ok")
    /\ UNCHANGED <<remotes, remoteHead, stray, packs, index, worktree>>

\* The user edits or deletes a file of the working tree.
WriteFile(p, c) ==
    /\ Step
    /\ worktree' = Put(worktree, p, c)
    /\ last' = Done("write", p, "ok")
    /\ UNCHANGED <<HEAD, heads, remotes, remoteHead, objects, stray, packs, index>>

\* commands/add.rs for one file path at the repository root.
Add(p) ==
    /\ Step
    /\ IF p \notin DOMAIN worktree
       THEN /\ last' = Done("add", p, "nomatch")
            /\ UNCHANGED <<objects, index>>
       ELSE /\ objects' = write_blob(objects, worktree[p])
            /\ index' = Put(index, p, hash_object(worktree[p], "blob"))
            /\ last' = Done("add", p, "ok")
    /\ UNCHANGED <<HEAD, heads, remotes, remoteHead, stray, packs, worktree>>

\* commands/rm.rs for one file path at the repository root.
Rm(p) ==
    /\ Step
    /\ IF p \notin DOMAIN worktree
       THEN /\ last' = Done("rm", p, "nomatch")
            /\ UNCHANGED <<index, worktree>>
       ELSE IF p \notin DOMAIN index
       THEN /\ last' = Done("rm", p, "notindexed")
            /\ UNCHANGED <<index, worktree>>
       ELSE /\ index' = Del(index, p)
            /\ worktree' = Del(worktree, p)
            /\ last' = Done("rm", p, "ok")
    /\ UNCHANGED <<HEAD, heads, remotes, remoteHead, objects, stray, packs>>

\* write_tree: the flat tree of the index, written into the object store.
write_tree(objs, idx) == write_object(objs, TreePayload(idx), "tree")

\* CommitParents that never names a parent.
CommitParentsNone(parent) == << >>

\* The parents of the new commit (commit.rs:16-19): HEAD's commit, or none
\* when HEAD's commit cannot be told.
CommitParents(parent) == IF parent = NoOid THEN << >> ELSE <<parent>>

\* commands/commit.rs.  The tree is written first; the commit object is
\* written by write_commit(&repo.git_dir, ...), that is under .git/<xx>/, not
\* under .git/objects/<xx>/.
Commit(message) ==
    LET t == now
        current_tree_id == TreeId(index)
        objs1 == write_tree(objects, index)
        branch == current_branch(HEAD)
        parent == get_head_commit(HEAD, heads)
        parent_ids == CommitParents(parent)
        commit_id == CommitId(current_tree_id, parent_ids, message, Author, t)
    IN
    /\ Step
    /\ objects' = objs1
    /\ IF branch = NoBranch
       THEN /\ last' = Done("commit", "", "err")
            /\ UNCHANGED <<heads, stray>>
       ELSE IF parent # NoOid /\ ~Readable(objs1, parent)
       THEN /\ last' = Done("commit", "", "err")
            /\ UNCHANGED <<heads, stray>>
       ELSE IF parent # NoOid /\ read_object(objs1, parent).object_type # "commit"
       THEN /\ last' = Done("commit", "", "err")
            /\ UNCHANGED <<heads, stray>>
       ELSE IF parent # NoOid /\ TreeOfCommit(objs1, parent) = current_tree_id
       THEN /\ last' = Done("commit", "", "nothing")
            /\ UNCHANGED <<heads, stray>>
       ELSE /\ stray' = write_commit(stray, current_tree_id, parent_ids, message, Author, t)
            /\ heads' = update_ref(heads, branch, commit_id)
            /\ last' = Done("commit", "", "ok")
    /\ UNCHANGED <<HEAD, remotes, remoteHead, packs, index, worktree>>

\* commands/branch.rs, create: refs/heads/<name> is written with HEAD's commit.
BranchCreate(name) ==
    LET head_commit == get_head_commit(HEAD, heads)
    IN
    /\ Step
    /\ IF head_commit = NoOid
       THEN /\ last' = Done("branch", name, "err")
            /\ UNCHANGED heads
       ELSE /\ heads' = create_branch(heads, name, head_commit)
            /\ last' = Done("branch", name, "ok")
    /\ UNCHANGED <<HEAD, remotes, remoteHead, objects, stray, packs, index, worktree>>

\* commands/branch.rs, delete (refs::delete_branch).
BranchDelete(name) ==
    /\ Step
    /\ IF name \notin DOMAIN heads
       THEN /\ last' = Done("branch-d", name, "err")
            /\ UNCHANGED heads
       ELSE /\ heads' = Del(heads, name)
            /\ last' = Done("branch-d", name, "ok")
    /\ UNCHANGED <<HEAD, remotes, remoteHead, objects, stray, packs, index, worktree>>

\* ------------------------------------------------------------------ merge

\* The per-path outcome of merge.rs:185-302 for the ids of one file in the
\* merge base, the current tip and the merged tip (NoOid: the file is absent).
\* keep: the path is inserted into merged_files with id oid.
Outcome(conflict, keep, oid, kind) == [conflict |-> conflict, keep |-> keep, oid |-> oid, kind |-> kind]

\* MergeOutcome that keeps ours, without a conflict, when both sides edited.
MergeOutcomeOursWins(base, current, merge) ==
    IF base # NoOid /\ current # NoOid /\ merge # NoOid THEN
        IF base = current /\ base = merge THEN Outcome(FALSE, TRUE, current, "unchanged")
        ELSE IF base = current /\ base # merge THEN Outcome(FALSE, TRUE, merge, "theirs")
        ELSE IF base # current /\ base = merge THEN Outcome(FALSE, TRUE, current, "ours")
        ELSE IF current = merge THEN Outcome(FALSE, TRUE, current, "ours")
        ELSE Outcome(FALSE, TRUE, current, "ours")
    ELSE IF base # NoOid /\ current # NoOid THEN
        IF base = current THEN Outcome(FALSE, FALSE, NoOid, "delete")
        ELSE Outcome(TRUE, TRUE, current, "edit/delete")
    ELSE IF base # NoOid /\ merge # NoOid THEN
        IF base = merge THEN Outcome(FALSE, FALSE, NoOid, "delete")
        ELSE Outcome(TRUE, TRUE, merge, "delete/edit")
    ELSE IF current # NoOid /\ merge # NoOid THEN
        IF current = merge THEN Outcome(FALSE, TRUE, current, "ours")
        ELSE Outcome(TRUE, TRUE, current, "add/add")
    ELSE IF current # NoOid THEN Outcome(FALSE, TRUE, current, "ours")
    ELSE IF merge # NoOid THEN Outcome(FALSE, TRUE, merge, "theirs")
    ELSE Outcome(FALSE, FALSE, NoOid, "nothing")

\* MergeOutcome that drops the file, without a conflict, when ours edited and
\* theirs deleted.
MergeOutcomeDeleteWins(base, current, merge) ==
    IF base # NoOid /\ current # NoOid /\ merge # NoOid THEN
        IF base = current /\ base = merge THEN Outcome(FALSE, TRUE, current, "unchanged")
        ELSE IF base = current /\ base # merge THEN Outcome(FALSE, TRUE, merge, "theirs")
        ELSE IF base # current /\ base = merge THEN Outcome(FALSE, TRUE, current, "ours")
        ELSE IF current = merge THEN Outcome(FALSE, TRUE, current, "ours")
        ELSE Outcome(TRUE, TRUE, current, "edit/edit")
    ELSE IF base # NoOid /\ current # NoOid THEN
        IF base = current THEN Outcome(FALSE, FALSE, NoOid, "delete")
        ELSE Outcome(FALSE, FALSE, NoOid, "delete")
    ELSE IF base # NoOid /\ merge # NoOid THEN
        IF base = merge THEN Outcome(FALSE, FALSE, NoOid, "delete")
        ELSE Outcome(TRUE, TRUE, merge, "delete/edit")
    ELSE IF current # NoOid /\ merge # NoOid THEN
        IF current = merge THEN Outcome(FALSE, TRUE, current, "ours")
        ELSE Outcome(TRUE, TRUE, current, "add/add")
    ELSE IF current # NoOid THEN Outcome(FALSE, TRUE, current, "ours")
    ELSE IF merge # NoOid THEN Outcome(FALSE, TRUE, merge, "theirs")
    ELSE Outcome(FALSE, FALSE, NoOid, "nothing")

MergeOutcome(base, current, merge) ==
    IF base # NoOid /\ current # NoOid /\ merge # NoOid THEN
        IF base = current /\ base = merge THEN Outcome(FALSE, TRUE, current, "unchanged")
        ELSE IF base = current /\ base # merge THEN Outcome(FALSE, TRUE, merge, "theirs")
        ELSE IF base # current /\ base = merge THEN Outcome(FALSE, TRUE, current, "ours")
        ELSE IF current = merge THEN Outcome(FALSE, TRUE, current, "ours")
        ELSE Outcome(TRUE, TRUE, current, "edit/edit")
    ELSE IF base # NoOid /\ current # NoOid THEN
        IF base = current THEN Outcome(FALSE, FALSE, NoOid, "delete")
        ELSE Outcome(TRUE, TRUE, current, "edit/delete")
    ELSE IF base # NoOid /\ merge # NoOid THEN
        IF base = merge THEN Outcome(FALSE, FALSE, NoOid, "delete")
        ELSE Outcome(TRUE, TRUE, merge, "delete/edit")
    ELSE IF current # NoOid /\ merge # NoOid THEN
        IF current = merge THEN Outcome(FALSE, TRUE, current, "ours")
        ELSE Outcome(TRUE, TRUE, current, "add/add")
    ELSE IF current # NoOid THEN Outcome(FALSE, TRUE, current, "ours")
    ELSE IF merge # NoOid THEN Outcome(FALSE, TRUE, merge, "theirs")
    ELSE Outcome(FALSE, FALSE, NoOid, "nothing")

At(files, p) == IF p \in DOMAIN files THEN files[p] ELSE NoOid

\* get_files_from_commit succeeds: the commit and its tree can be read and
\* have the right types.
FilesReadable(objs, commit_id) ==
    /\ Readable(objs, commit_id)
    /\ read_object(objs, commit_id).object_type = "commit"
    /\ Readable(objs, TreeOfCommit(objs, commit_id))
    /\ read_object(objs, TreeOfCommit(objs, commit_id)).object_type = "tree"

\* get_files_from_commit: the name -> id map of the commit's (flat) tree.
get_files_from_commit(objs, commit_id) ==
    TreeFilesOf(read_object(objs, TreeOfCommit(objs, commit_id)).data)

\* The three file maps merge reconciles, and the outcome per path.
MergePlan(objs, ours, theirs) ==
    LET merge_base == find_merge_base(objs, ours, theirs)
        current_files == get_files_from_commit(objs, ours)
        merge_files == get_files_from_commit(objs, theirs)
        base_files == IF merge_base = NoOid THEN EmptyMap
                      ELSE get_files_from_commit(objs, merge_base)
        all_filenames == (DOMAIN current_files) \cup (DOMAIN merge_files) \cup (DOMAIN base_files)
        out == [f \in all_filenames |->
                   MergeOutcome(At(base_files, f), At(current_files, f), At(merge_files, f))]
    IN [base |-> merge_base, current_files |-> current_files, out |-> out,
        conflict_found |-> \E f \in all_filenames : out[f].conflict,
        merged_files |-> [f \in {g \in all_filenames : out[g].keep} |-> out[f].oid],
        \* an edit/edit conflict reads both blobs, and fails when one is missing
        unreadable |-> \E f \in all_filenames :
                          /\ out[f].kind = "edit/edit"
                          /\ ~(Readable(objs, At(current_files, f)) /\ Readable(objs, At(merge_files, f)))]

\* The files of `files` whose blob can be read and is a blob.
Blobs(objs, files) ==
    {f \in DOMAIN files : Readable(objs, files[f]) /\ read_object(objs, files[f]).object_type = "blob"}

\* The working tree after the files `written` of `files` were written from
\* their blobs.
WriteOut(objs, tree, files, written) ==
    [p \in (DOMAIN tree) \cup written |->
        IF p \in written THEN read_object(objs, files[p]).data ELSE tree[p]]

\* RemoveFiles that removes nothing.
RemoveFilesNone(tree, gone) == tree

\* The working tree without the files of `gone`.
RemoveFiles(tree, gone) == [p \in (DOMAIN tree) \ gone |-> tree[p]]

\* MergeParents with the two parents exchanged.
MergeParentsSwapped(current_branch_commit_id, merge_branch_commit_id) ==
    <<merge_branch_commit_id, current_branch_commit_id>>

\* The parents and the message of the merge commit (merge.rs:346-347).
MergeParents(current_branch_commit_id, merge_branch_commit_id) ==
    <<current_branch_commit_id, merge_branch_commit_id>>

MergeMessage(branch_to_merge, current_branch_name) ==
    <<"Merge branch '", branch_to_merge, "' into ", current_branch_name>>

\* MergeEarly without the test for equal tips.
MergeEarlyNoTipTest(current_branch_name, branch_to_merge, ours, theirs) ==
    IF current_branch_name = NoBranch THEN "err"
    ELSE IF current_branch_name = branch_to_merge THEN "same-branch"
    ELSE IF ours = NoOid THEN "err"
    ELSE IF theirs = NoOid THEN "unknown-branch"
    ELSE "go"

\* The early exits of merge (merge.rs:137-157): HEAD is detached, the branch
\* is the current one, a ref cannot be read, or both tips are one commit;
\* "go" when the merge goes on.
MergeEarly(current_branch_name, branch_to_merge, ours, theirs) ==
    IF current_branch_name = NoBranch THEN "err"
    ELSE IF current_branch_name = branch_to_merge THEN "same-branch"
    ELSE IF ours = NoOid THEN "err"
    ELSE IF theirs = NoOid THEN "unknown-branch"
    ELSE IF ours = theirs THEN "up-to-date"
    ELSE "go"

\* commands/merge.rs.
Merge(branch_to_merge) ==
    LET t == now
        current_branch_name == current_branch(HEAD)
        ours == read_ref(heads, current_branch_name)
        theirs == read_ref(heads, branch_to_merge)
        early == MergeEarly(current_branch_name, branch_to_merge, ours, theirs)
        merge_base == find_merge_base(objects, ours, theirs)
        base_ok == merge_base = NoOid \/ FilesReadable(objects, merge_base)
        plan == MergePlan(objects, ours, theirs)
        gone == {f \in DOMAIN plan.current_files : f \notin DOMAIN plan.merged_files}
        tree1 == RemoveFiles(worktree, gone)
        readable == {f \in DOMAIN plan.merged_files : Readable(objects, plan.merged_files[f])}
        blobs == Blobs(objects, plan.merged_files)
        index1 == Overlay(index, [f \in blobs |-> plan.merged_files[f]])
        current_tree_id == TreeId(index1)
        parent_ids == MergeParents(ours, theirs)
        message == MergeMessage(branch_to_merge, current_branch_name)
        merge_commit_id == CommitId(current_tree_id, parent_ids, message, Author, t)
    IN
    /\ Step
    /\ IF early # "go"
       THEN /\ last' = Done("merge", branch_to_merge, early)
            /\ UNCHANGED <<heads, objects, stray, index, worktree>>
       ELSE IF ~(FilesReadable(objects, ours) /\ FilesReadable(objects, theirs) /\ base_ok)
       THEN /\ last' = Done("merge", branch_to_merge, "err")
            /\ UNCHANGED <<heads, objects, stray, index, worktree>>
       ELSE IF plan.unreadable
       THEN /\ last' = Done("merge", branch_to_merge, "err")
            /\ UNCHANGED <<heads, objects, stray, index, worktree>>
       ELSE IF plan.conflict_found
       THEN /\ last' = Done("merge", branch_to_merge, "conflict")
            /\ UNCHANGED <<heads, objects, stray, index, worktree>>
       ELSE IF readable # DOMAIN plan.merged_files
       THEN \* a blob cannot be read: the files written before it stay written
            /\ \E written \in SUBSET blobs :
                   worktree' = WriteOut(objects, tree1, plan.merged_files, written)
            /\ last' = Done("merge", branch_to_merge, "err")
            /\ UNCHANGED <<heads, objects, stray, index>>
       ELSE /\ worktree' = WriteOut(objects, tree1, plan.merged_files, blobs)
            /\ index' = index1
            /\ objects' = write_tree(objects, index1)
            /\ stray' = write_commit(stray, current_tree_id, parent_ids, message, Author, t)
            /\ heads' = update_ref(heads, current_branch_name, merge_commit_id)
            /\ last' = Done("merge", branch_to_merge, "merged")
    /\ UNCHANGED <<HEAD, remotes, remoteHead, packs>>

\* --------------------------------------------------------------- checkout

\* The file map of a commit as update_working_directory_and_index reads it for
\* the current HEAD commit: empty when there is no current commit.
CurrentTreeOk(objs, cur) == cur = NoOid \/ FilesReadable(objs, cur)

CurrentTreeFiles(objs, cur) ==
    IF cur = NoOid THEN EmptyMap ELSE get_files_from_commit(objs, cur)

\* CheckoutEarly without the test that the branch exists.
CheckoutEarlyNoExistTest(refmap, branch_name, create_branch_flag, head_commit) ==
    IF create_branch_flag /\ branch_name \in DOMAIN refmap THEN "exists"
    ELSE IF create_branch_flag /\ head_commit = NoOid THEN "err"
    ELSE "go"

\* The refusals of checkout before anything is written (checkout.rs:13-32):
\* the branch to create exists, HEAD has no commit to create it from, or the
\* branch to switch to has no ref; "go" when checkout goes on.
CheckoutEarly(refmap, branch_name, create_branch_flag, head_commit) ==
    IF create_branch_flag /\ branch_name \in DOMAIN refmap THEN "exists"
    ELSE IF create_branch_flag /\ head_commit = NoOid THEN "err"
    ELSE IF ~create_branch_flag /\ branch_name \notin DOMAIN refmap THEN "not-found"
    ELSE "go"

\* commands/checkout.rs.  HEAD is written before the working tree and the
\* index are updated.
Checkout(branch_name, create_branch_flag) ==
    LET head_commit == get_head_commit(HEAD, heads)
        early == CheckoutEarly(heads, branch_name, create_branch_flag, head_commit)
        heads1 == IF create_branch_flag THEN create_branch(heads, branch_name, head_commit)
                  ELSE heads
        current_head_commit == get_head_commit(HEAD, heads1)
        target_commit_id == read_ref(heads1, branch_name)
        cur == CurrentTreeFiles(objects, current_head_commit)
        tgt == get_files_from_commit(objects, target_commit_id)
        gone == {f \in DOMAIN cur : f \notin DOMAIN tgt}
        tree1 == RemoveFiles(worktree, gone)
        readable == {f \in DOMAIN tgt : Readable(objects, tgt[f])}
        blobs == Blobs(objects, tgt)
        updated == {f \in blobs : f \notin DOMAIN cur \/ cur[f] # tgt[f]}
        index1 == Overlay(index, [f \in updated |-> tgt[f]])
        stale == {f \in DOMAIN index1 : /\ f \in DOMAIN cur
                                        /\ f \notin DOMAIN tgt
                                        /\ index1[f] = cur[f]}
    IN
    /\ Step
    /\ IF early # "go"
       THEN /\ last' = Done("checkout", branch_name, early)
            /\ UNCHANGED <<HEAD, heads, index, worktree>>
       ELSE /\ heads' = heads1
            /\ HEAD' = <<"ref", branch_name>>
            /\ IF ~(CurrentTreeOk(objects, current_head_commit)
                    /\ FilesReadable(objects, target_commit_id))
               THEN /\ last' = Done("checkout", branch_name, "err-after-head")
                    /\ UNCHANGED <<index, worktree>>
               ELSE IF readable # DOMAIN tgt
               THEN \* a blob cannot be read: the files written before it stay
                    /\ \E written \in SUBSET blobs :
                           worktree' = WriteOut(objects, tree1, tgt, written)
                    /\ last' = Done("checkout", branch_name, "err-after-head")
                    /\ UNCHANGED index
               ELSE /\ worktree' = WriteOut(objects, tree1, tgt, blobs)
                    /\ index' = [f \in (DOMAIN index1) \ stale |-> index1[f]]
                    /\ last' = Done("checkout", branch_name, "ok")
    /\ UNCHANGED <<remotes, remoteHead, objects, stray, packs>>

\* ----------------------------------------------------------------- bundles

\* Commits of other repositories, which reach this one only inside bundles.
\* Their history starts from the commit `init` made at time 0, so a sender's
\* branch can be a fast-forward of a branch of the fresh repository.
ExtAuthor == "Sender <sender@example.com>"

BlobId(c) == hash_object(c, "blob")

E0 == CommitId(TreeId([p \in {"a"} |-> BlobId("1")]), <<NullCommitId(0)>>, <<"e0">>, ExtAuthor, 0)

E1 == CommitId(TreeId([p \in {"a"} |-> BlobId("2")]), <<E0>>, <<"e1">>, ExtAuthor, 0)

E2 == CommitId(TreeId([p \in {"a"} |-> BlobId("3")]), <<E0>>, <<"e2">>, ExtAuthor, 0)

\* A child of E0 that deletes the file.
E3 == CommitId(EmptyTreeId, <<E0>>, <<"e3">>, ExtAuthor, 0)

ExtCommits == {E0, E1, E2, E3}

\* Every id reachable from a set of ids: commits reach their tree and their
\* parents, trees reach their entries.
Refs(oid) ==
    IF TypeOf(oid) = "commit" THEN {DataOf(oid).tree} \cup Range(DataOf(oid).parents)
    ELSE IF TypeOf(oid) = "tree" THEN {DataOf(oid)[i][3] : i \in DOMAIN DataOf(oid)}
    ELSE {}

RECURSIVE Closure(_)
Closure(ids) ==
    LET more == ids \cup UNION {Refs(o) : o \in ids}
    IN IF more = ids THEN ids ELSE Closure(more)

\* A bundle as create_bundle writes it from a sender's repository: the
\* sender's object files, one packed-refs line per branch in list_branches
\* order, and the sender's HEAD.
SenderBundle(refmap, enc, head) ==
    [objects |-> [o \in Closure({refmap[b] : b \in DOMAIN refmap}) |->
                     ObjectFile(DataOf(o), TypeOf(o), enc)],
     packed_refs |-> LET names == list_branches(refmap)
                     IN [i \in 1..Len(names) |-> <<refmap[names[i]], names[i]>>],
     head |-> head]

\* The senders' branch maps: feat at E0 or E1, master at E2 or E3, or both.
SenderTips == [feat |-> {E0, E1}, master |-> {E2, E3}]

SenderRefs ==
    UNION {{m \in [bs -> ExtCommits] : \A b \in bs : m[b] \in SenderTips[b]} :
              bs \in (SUBSET Branches) \ {{}}}

BundleHeads == {<<"ref", "master">>}

Bundles == {SenderBundle(m, e, h) : m \in SenderRefs, e \in Encodings, h \in BundleHeads}

\* unbundle, step 1 (bundle.rs:75-92): every object file of the bundle is
\* copied to the same path of the object store with fs::copy, which writes the
\* destination whether or not it exists.
CopyObjects(objs, bundle_objects) == Overlay(objs, bundle_objects)

\* PushRefs without the fast-forward check: every line is written.
RECURSIVE PushRefsForced(_, _, _, _)
PushRefsForced(objs, refmap, lines, i) ==
    IF i > Len(lines) THEN [heads |-> refmap, res |-> "ok"]
    ELSE PushRefsForced(objs, update_ref(refmap, lines[i][2], lines[i][1]), lines, i + 1)

\* PushRefs with the arguments of is_ancestor exchanged.
RECURSIVE PushRefsSwapped(_, _, _, _)
PushRefsSwapped(objs, refmap, lines, i) ==
    IF i > Len(lines) THEN [heads |-> refmap, res |-> "ok"]
    ELSE LET commit_id == lines[i][1]
             branch == lines[i][2]
             server_commit_id == read_ref(refmap, branch)
         IN IF server_commit_id = NoOid
            THEN PushRefsSwapped(objs, update_ref(refmap, branch, commit_id), lines, i + 1)
            ELSE IF server_commit_id = commit_id
            THEN PushRefsSwapped(objs, refmap, lines, i + 1)
            ELSE IF is_ancestor(objs, commit_id, server_commit_id)
            THEN PushRefsSwapped(objs, update_ref(refmap, branch, commit_id), lines, i + 1)
            ELSE [heads |-> refmap, res |-> "non-fast-forward"]

\* unbundle, step 2 in push mode (bundle.rs:110-137), for the packed-refs
\* lines from line i on: the refs after the loop and how it ended.  A line is
\* <<commit_id, branch>>.  The loop stops at the first line that is no
\* fast-forward; the lines before it have been applied.
RECURSIVE PushRefs(_, _, _, _)
PushRefs(objs, refmap, lines, i) ==
    IF i > Len(lines) THEN [heads |-> refmap, res |-> "ok"]
    ELSE LET commit_id == lines[i][1]
             branch == lines[i][2]
             server_commit_id == read_ref(refmap, branch)
         IN IF server_commit_id = NoOid
            THEN PushRefs(objs, update_ref(refmap, branch, commit_id), lines, i + 1)
            ELSE IF server_commit_id = commit_id
            THEN PushRefs(objs, refmap, lines, i + 1)
            ELSE IF is_ancestor(objs, server_commit_id, commit_id)
            THEN PushRefs(objs, update_ref(refmap, branch, commit_id), lines, i + 1)
            ELSE [heads |-> refmap, res |-> "non-fast-forward"]

\* unbundle, step 2 in fetch mode (bundle.rs:104-109): every line is written
\* to refs/remotes/<remote>/<branch>.
FetchRefs(refmap, lines) ==
    Overlay(refmap, [b \in {lines[i][2] : i \in DOMAIN lines} |->
                        lines[CHOOSE i \in DOMAIN lines : lines[i][2] = b][1]])

\* unbundle, step 3 (bundle.rs:145-160): an attached sender HEAD is mirrored.
MirrorHead(old, head) == IF head[1] = "ref" THEN <<"ref", head[2]>> ELSE old

\* bundle::unbundle(repo, bundle, None), as handle_push calls it.
UnbundlePush(bundle) ==
    LET objs1 == CopyObjects(objects, bundle.objects)
        pushed == PushRefs(objs1, heads, bundle.packed_refs, 1)
    IN
    /\ Step
    /\ objects' = objs1
    /\ heads' = pushed.heads
    /\ last' = Done("push", bundle.packed_refs, pushed.res)
    /\ UNCHANGED <<HEAD, remotes, remoteHead, stray, packs, index, worktree>>

\* bundle::unbundle(repo, bundle, Some("origin")), as fetch calls it.
UnbundleFetch(bundle) ==
    /\ Step
    /\ objects' = CopyObjects(objects, bundle.objects)
    /\ remotes' = FetchRefs(remotes, bundle.packed_refs)
    /\ remoteHead' = MirrorHead(remoteHead, bundle.head)
    /\ last' = Done("fetch", bundle.packed_refs, "ok")
    /\ UNCHANGED <<HEAD, heads, stray, packs, index, worktree>>

\* ------------------------------------------------------------ repack and gc

\* RepackObjects that deletes no loose object.
RepackObjectsKeep(objs) == objs

\* Repository::repack: every file under objects/<xx>/ is deleted, the <xx>
\* directories are removed, and pack-<t>.pack and pack-<t>.idx are written
\* empty.
RepackObjects(objs) == EmptyMap

Repack ==
    LET t == now IN
    /\ Step
    /\ objects' = RepackObjects(objects)
    /\ packs' = packs \cup {t}
    /\ last' = Done("repack", "", "ok")
    /\ UNCHANGED <<HEAD, heads, remotes, remoteHead, stray, index, worktree>>

\* Repository::gc: repack, then every directory left under objects/ but pack
\* is moved into pack/ (none is left after repack).
Gc ==
    LET t == now IN
    /\ Step
    /\ objects' = [o \in {} |-> RepackObjects(objects)[o]]
    /\ packs' = packs \cup {t}
    /\ last' = Done("gc", "", "ok")
    /\ UNCHANGED <<HEAD, heads, remotes, remoteHead, stray, index, worktree>>

\* ------------------------------------------------------------ specification

Next ==
    \/ Tick
    \/ ReInit
    \/ \E p \in Paths, c \in UserContents : WriteFile(p, c)
    \/ \E p \in Paths : Add(p)
    \/ \E p \in Paths : Rm(p)
    \/ \E m \in Messages : Commit(m)
    \/ \E b \in Branches : BranchCreate(b)
    \/ \E b \in Branches : BranchDelete(b)
    \/ \E b \in Branches, f \in BOOLEAN : Checkout(b, f)
    \/ \E b \in Branches : Merge(b)
    \/ \E bundle \in Bundles : UnbundlePush(bundle)
    \/ \E bundle \in Bundles : UnbundleFetch(bundle)
    \/ Repack
    \/ Gc

Spec == Init /\ [][Next]_vars

\* ------------------------------------------------- fetch from a repository

\* The branch maps of a sender repository that may also have a nested branch.
SenderRepos ==
    UNION {{m \in [bs -> ExtCommits] :
               \A b \in bs : m[b] \in (IF b \in NestedBranches THEN {E1} ELSE SenderTips[b])} :
              bs \in (SUBSET (Branches \cup NestedBranches)) \ {{}}}

\* unbundle(R2, create_bundle(R1), Some(x)): the sender with branch map m
\* makes its bundle and this repository ingests it in fetch mode.
FetchFrom(m, enc, head) ==
    LET bundle == SenderBundle(m, enc, head) IN
    /\ Step
    /\ objects' = CopyObjects(objects, bundle.objects)
    /\ remotes' = FetchRefs(remotes, bundle.packed_refs)
    /\ remoteHead' = MirrorHead(remoteHead, bundle.head)
    /\ last' = Done("fetch-from", m, "ok")
    /\ UNCHANGED <<HEAD, heads, stray, packs, index, worktree>>

\* The HEAD file of a sender: attached to a branch, or detached at a commit
\* (refs.rs:64-74 reads both forms).
SenderHeads == BundleHeads \cup {<<"ref", "feat">>, <<"oid", E1>>}

NextFetch == \E m \in SenderRepos, enc \in Encodings, head \in SenderHeads : FetchFrom(m, enc, head)

SpecFetch == Init /\ [][NextFetch]_vars

\* ------------------------------------------------------- the bundle server

\* bin/server.rs serves one repository.  Each request runs its handler on a
\* task of the multi-threaded runtime; a handler opens the repository and
\* calls create_bundle or unbundle, neither of which takes a lock, so the file
\* operations of two handlers interleave.

\* The requests a client can send: GET (fetch) or POST of a bundle (push).
StartRequests ==
    {Request("fetch", "objects", NoBundle, 1)} \cup
    {Request("push", "copy", bundle, 1) : bundle \in Bundles}

InitServer ==
    /\ HEAD = <<"ref", "master">>
    /\ heads = [b \in {"master"} |-> NullCommitId(0)]
    /\ remotes = EmptyMap
    /\ remoteHead = NoOid
    /\ objects = InitObjects(0)
    /\ stray = EmptyMap
    /\ packs = {}
    /\ index = EmptyMap
    /\ worktree = EmptyMap
    /\ now = 0
    /\ nops = 0
    /\ last = [op |-> "init", arg |-> "", res |-> "ok", pre |-> EmptyMap]
    /\ srv \in [Requests -> StartRequests]

\* The step of a push handler after line i of packed-refs is dealt with.
AfterLine(lines, i) == IF i + 1 > Len(lines) THEN "done" ELSE "read"

\* handle_push, unbundle step 1 (bundle.rs:75-92): the bundle's object files
\* are copied into the object store.
SrvPushCopy(r) ==
    /\ srv[r].kind = "push"
    /\ srv[r].pc = "copy"
    /\ objects' = CopyObjects(objects, srv[r].bundle.objects)
    /\ srv' = [srv EXCEPT ![r].pc = IF Len(srv[r].bundle.packed_refs) = 0 THEN "done" ELSE "read"]
    /\ UNCHANGED <<HEAD, heads, remotes, remoteHead, stray, packs, index, worktree, now, nops, last>>

\* handle_push, unbundle step 2 for one line (bundle.rs:110-123, 126-137):
\* the branch's ref is read and the fast-forward test is made.
SrvPushRead(r) ==
    LET lines == srv[r].bundle.packed_refs
        i == srv[r].i
        commit_id == lines[i][1]
        branch == lines[i][2]
        server_commit_id == read_ref(heads, branch)
    IN
    /\ srv[r].kind = "push"
    /\ srv[r].pc = "read"
    /\ srv' = IF server_commit_id = NoOid
              THEN [srv EXCEPT ![r].pc = "write"]
              ELSE IF server_commit_id = commit_id
              THEN [srv EXCEPT ![r].pc = AfterLine(lines, i), ![r].i = i + 1]
              ELSE IF is_ancestor(objects, server_commit_id, commit_id)
              THEN [srv EXCEPT ![r].pc = "write"]
              ELSE [srv EXCEPT ![r].pc = "failed"]
    /\ UNCHANGED <<HEAD, heads, remotes, remoteHead, objects, stray, packs, index, worktree, now, nops, last>>

\* handle_push, unbundle step 2 for one line (bundle.rs:124, 135): the ref is
\* written.
SrvPushWrite(r) ==
    LET lines == srv[r].bundle.packed_refs
        i == srv[r].i
    IN
    /\ srv[r].kind = "push"
    /\ srv[r].pc = "write"
    /\ heads' = update_ref(heads, lines[i][2], lines[i][1])
    /\ srv' = [srv EXCEPT ![r].pc = AfterLine(lines, i), ![r].i = i + 1]
    /\ UNCHANGED <<HEAD, remotes, remoteHead, objects, stray, packs, index, worktree, now, nops, last>>

\* handle_fetch, create_bundle step 1 (bundle.rs:22-27): the object store is
\* archived.
SrvFetchObjects(r) ==
    /\ srv[r].kind = "fetch"
    /\ srv[r].pc = "objects"
    /\ srv' = [srv EXCEPT ![r].pc = "refs", ![r].bundle.objects = objects]
    /\ UNCHANGED <<HEAD, heads, remotes, remoteHead, objects, stray, packs, index, worktree, now, nops, last>>

\* handle_fetch, create_bundle steps 2 and 3 (bundle.rs:29-52): packed-refs
\* is written from the branch refs, and HEAD is added.
SrvFetchRefs(r) ==
    /\ srv[r].kind = "fetch"
    /\ srv[r].pc = "refs"
    /\ srv' = [srv EXCEPT ![r].pc = "done",
                          ![r].bundle.packed_refs = SenderBundle(heads, "own", HEAD).packed_refs,
                          ![r].bundle.head = HEAD]
    /\ UNCHANGED <<HEAD, heads, remotes, remoteHead, objects, stray, packs, index, worktree, now, nops, last>>

NextServer ==
    \E r \in Requests :
        \/ SrvPushCopy(r)
        \/ SrvPushRead(r)
        \/ SrvPushWrite(r)
        \/ SrvFetchObjects(r)
        \/ SrvFetchRefs(r)

SpecServer == InitServer /\ [][NextServer]_vars

\* ------------------------------------------------ walks of a commit graph

\* The message of the i-th commit of a graph.
NodeNames == <<"n1", "n2", "n3", "n4", "n5", "n6">>

\* The parent lists a commit can have among the commits before it: none, one,
\* or two in either order (the order of the parent lines of a merge commit).
ParentLists(i) ==
    {<< >>} \cup {<<j>> : j \in 1..(i - 1)}
            \cup {p \in (1..(i - 1)) \X (1..(i - 1)) : p[1] # p[2]}

\* The commit graphs of n commits: per commit, its parent list.
RECURSIVE ShapesOf(_)
ShapesOf(n) ==
    IF n = 0 THEN {<< >>}
    ELSE {Append(sh, ps) : sh \in ShapesOf(n - 1), ps \in ParentLists(n)}

Shapes == ShapesOf(MaxCommits)

\* The id of the i-th commit of a graph, as write_commit makes it.
RECURSIVE NodeId(_, _)
NodeId(sh, i) ==
    CommitId(EmptyTreeId, [j \in 1..Len(sh[i]) |-> NodeId(sh, sh[i][j])],
             <<NodeNames[i]>>, ExtAuthor, 0)

\* The object store that holds the commits of a graph, but for `missing`.
GraphStore(sh, missing) ==
    [o \in {NodeId(sh, i) : i \in (1..MaxCommits) \ missing} |->
        ObjectFile(DataOf(o), "commit", "own")]

\* A commit graph is in the object store, and two of its commits are given.
InitCommitGraph ==
    /\ HEAD = <<"ref", "master">>
    /\ heads = EmptyMap
    /\ remotes = EmptyMap
    /\ remoteHead = NoOid
    /\ \E sh \in Shapes, missing \in {{}} \cup {{i} : i \in 1..MaxCommits} :
          /\ objects = GraphStore(sh, missing)
          /\ \E a \in 1..MaxCommits, b \in 1..MaxCommits :
                last = [op |-> "commits", arg |-> <<NodeId(sh, a), NodeId(sh, b)>>,
                        res |-> NoOid, pre |-> EmptyMap]
    /\ stray = EmptyMap
    /\ packs = {}
    /\ index = EmptyMap
    /\ worktree = EmptyMap
    /\ now = 0
    /\ nops = 0
    /\ srv = NoRequests

\* merge.rs:160: find_merge_base is applied to the two commits.
FindMergeBase ==
    /\ last.op = "commits"
    /\ last' = [last EXCEPT !.op = "merge-base",
                            !.res = find_merge_base(objects, last.arg[1], last.arg[2])]
    /\ UNCHANGED <<HEAD, heads, remotes, remoteHead, objects, stray, packs, index, worktree, now, nops, srv>>

\* bundle.rs:121: is_ancestor is applied to the two commits.
IsAncestor ==
    /\ last.op = "commits"
    /\ last' = [last EXCEPT !.op = "is-ancestor",
                            !.res = is_ancestor(objects, last.arg[1], last.arg[2])]
    /\ UNCHANGED <<HEAD, heads, remotes, remoteHead, objects, stray, packs, index, worktree, now, nops, srv>>

NextCommitGraph == FindMergeBase \/ IsAncestor

SpecCommitGraph == InitCommitGraph /\ [][NextCommitGraph]_vars

\* ----------------------------------------------------- the branch refs

\* refs::create_branch and refs::delete_branch applied in any order to the
\* refs of a repository, with flat and nested branch names.  The record of
\* the last call also tells the branches created and not deleted since.
RefNames == Branches \cup NestedBranches

RefCall(op, name, res, live) ==
    [op |-> op, arg |-> [name |-> name, live |-> live], res |-> res, pre |-> heads]

InitBranches ==
    /\ HEAD = <<"ref", "master">>
    /\ heads = [b \in {"master"} |-> NullCommitId(0)]
    /\ remotes = EmptyMap
    /\ remoteHead = NoOid
    /\ objects = InitObjects(0)
    /\ stray = EmptyMap
    /\ packs = {}
    /\ index = EmptyMap
    /\ worktree = EmptyMap
    /\ now = 0
    /\ nops = 0
    /\ last = [op |-> "init", arg |-> [name |-> "master", live |-> {"master"}],
               res |-> "ok", pre |-> EmptyMap]
    /\ srv = NoRequests

\* refs::create_branch(git_dir, name, commit_id).
RefCreate(name, commit_id) ==
    /\ heads' = create_branch(heads, name, commit_id)
    /\ last' = RefCall("create_branch", name, "ok", last.arg.live \cup {name})
    /\ UNCHANGED <<HEAD, remotes, remoteHead, objects, stray, packs, index, worktree, now, nops, srv>>

\* refs::delete_branch(git_dir, name): an error when the ref file is missing.
RefDelete(name) ==
    /\ IF name \notin DOMAIN heads
       THEN /\ last' = RefCall("delete_branch", name, "err", last.arg.live)
            /\ UNCHANGED heads
       ELSE /\ heads' = Del(heads, name)
            /\ last' = RefCall("delete_branch", name, "ok", last.arg.live \ {name})
    /\ UNCHANGED <<HEAD, remotes, remoteHead, objects, stray, packs, index, worktree, now, nops, srv>>

NextBranches ==
    \/ \E name \in RefNames, commit_id \in {NullCommitId(0), E0} : RefCreate(name, commit_id)
    \/ \E name \in RefNames : RefDelete(name)

SpecBranches == InitBranches /\ [][NextBranches]_vars

\* ------------------------------------------- the index and its paths

\* add, rm and write_tree with the paths as the user gives them.  A path is
\* the sequence of its components as std::path yields them: "/" is the root,
\* "." and ".." are kept at the front, a "." elsewhere is dropped; two paths
\* are equal (as keys of the index's HashMap) when their components are.
\* Here the index maps a path to its entry [mtime, object_id, mode], and the
\* working tree maps the absolute path of a file to [content, mtime].

Components(p) ==
    IF p = << >> THEN << >> ELSE <<p[1]>> \o SelectSeq(Tail(p), LAMBDA c : c # ".")

is_absolute(p) == p # << >> /\ p[1] = "/"

\* Path::join: an absolute argument replaces the base.
join(base, p) == IF is_absolute(p) THEN p ELSE Components(base \o p)

\* Path::starts_with and Path::strip_prefix compare whole components.
starts_with(p, base) == Len(base) <= Len(p) /\ SubSeq(p, 1, Len(base)) = base

strip_prefix(p, base) == SubSeq(p, Len(base) + 1, Len(p))

\* The repository's directory, and its subdirectory d.
RepoRoot == <<"/", "r">>

SubDir == <<"/", "r", "d">>

\* The files the user may have in the working tree.
FileUniverse == {<<"/", "r", "a">>, <<"/", "r", "d", "f">>}

\* The directories a command may be run from.
WorkDirs == {RepoRoot, SubDir}

\* The path arguments the user gives: relative, `./`-prefixed, with `..`,
\* and absolute, of files and of directories.
UserPaths ==
    {<<"a">>, <<".", "a">>, <<"d", "f">>, <<"d">>, <<".">>, <<"f">>, <<"..", "a">>,
     <<"/", "r", "a">>, <<"/", "r", "d", "f">>, <<"/", "r", "d">>}

\* The file the operating system finds for a path: `.` and `..` are followed.
RECURSIVE Follow(_, _)
Follow(at, rest) ==
    IF rest = << >> THEN at
    ELSE LET c == Head(rest)
         IN IF c = "/" THEN Follow(<<"/">>, Tail(rest))
            ELSE IF c = "." THEN Follow(at, Tail(rest))
            ELSE IF c = ".." THEN Follow(IF Len(at) > 1 THEN SubSeq(at, 1, Len(at) - 1) ELSE at,
                                         Tail(rest))
            ELSE Follow(Append(at, c), Tail(rest))

Resolve(cwd, p) == Follow(IF is_absolute(p) THEN << >> ELSE cwd, p)

is_file(tree, q) == q \in DOMAIN tree

is_dir(tree, q) ==
    \/ q \in {<<"/">>, RepoRoot}
    \/ \E f \in DOMAIN tree : Len(q) < Len(f) /\ starts_with(f, q)

exists(tree, q) == is_file(tree, q) \/ is_dir(tree, q)

\* The files under a directory.
FilesUnder(tree, dir) == {f \in DOMAIN tree : Len(dir) < Len(f) /\ starts_with(f, dir)}

IndexEntry(mtime, object_id) == [mtime |-> mtime, object_id |-> object_id, mode |-> FileMode]

\* Index::add_file (index.rs:60-82): the key is the path with repo_path
\* stripped when the path starts with it, and the path as given otherwise.
add_file(entries, repo_path, file_path, object_id, mtime) ==
    LET relative_path == IF starts_with(file_path, repo_path)
                         THEN strip_prefix(file_path, repo_path)
                         ELSE file_path
    IN Put(entries, relative_path, IndexEntry(mtime, object_id))

\* Index::add_directory (index.rs:84-120) for the files `todo` WalkDir finds
\* under dir_path (which the system resolves to `dir`): each is read, and
\* added under the path WalkDir gives it, dir_path followed by the rest.
RECURSIVE add_directory(_, _, _, _, _, _)
add_directory(entries, repo_path, dir_path, dir, tree, todo) ==
    IF todo = {} THEN entries
    ELSE LET f == CHOOSE g \in todo : TRUE
             path == Components(dir_path \o strip_prefix(f, dir))
         IN add_directory(add_file(entries, repo_path, path, BlobId(tree[f].content), tree[f].mtime),
                          repo_path, dir_path, dir, tree, todo \ {f})

\* Index::remove_path (index.rs:122-158): the paths removed.  For a
\* directory, every entry whose path, joined to repo_path, starts with it;
\* for a file, the entry of the path with repo_path stripped.
remove_path(entries, repo_path, path, tree) ==
    LET abs_path == IF is_absolute(path) THEN path ELSE join(repo_path, path)
        rel_path == IF starts_with(abs_path, repo_path)
                    THEN strip_prefix(abs_path, repo_path)
                    ELSE path
    IN IF is_dir(tree, Resolve(<< >>, abs_path))
       THEN {k \in DOMAIN entries : starts_with(join(repo_path, k), abs_path)}
       ELSE IF rel_path \in DOMAIN entries THEN {rel_path} ELSE {}

\* The record of the last command on the index: the directory it ran in, its
\* path argument, its result, and the index it started from.
IndexDone(op, cwd, path, res) ==
    [op |-> op, arg |-> [cwd |-> cwd, path |-> path], res |-> res, pre |-> index]

\* The repository after `init`, with the user's files in the working tree.
InitIndex ==
    /\ HEAD = <<"ref", "master">>
    /\ heads = [b \in {"master"} |-> NullCommitId(0)]
    /\ remotes = EmptyMap
    /\ remoteHead = NoOid
    /\ objects = InitObjects(0)
    /\ stray = EmptyMap
    /\ packs = {}
    /\ index = EmptyMap
    /\ worktree = [f \in FileUniverse |-> [content |-> "1", mtime |-> 0]]
    /\ now = 0
    /\ nops = 0
    /\ last = [op |-> "init", arg |-> [cwd |-> RepoRoot, path |-> << >>],
               res |-> "ok", pre |-> EmptyMap]
    /\ srv = NoRequests

\* The user writes a file of the working tree.
IndexWriteFile(f, c) ==
    /\ Step
    /\ worktree' = Put(worktree, f, [content |-> c, mtime |-> now])
    /\ last' = IndexDone("write", RepoRoot, f, "ok")
    /\ UNCHANGED <<HEAD, heads, remotes, remoteHead, objects, stray, packs, index>>

\* commands/add.rs for one path, run in the directory cwd.  Repository::open
\* is given the current directory, so repo.path is cwd.
IndexAdd(cwd, path) ==
    LET repo_path == cwd
        q == Resolve(cwd, path)
        found == FilesUnder(worktree, q)
    IN
    /\ Step
    /\ IF ~exists(worktree, q)
       THEN /\ last' = IndexDone("add", cwd, path, "nomatch")
            /\ UNCHANGED <<objects, index>>
       ELSE IF is_dir(worktree, q)
       THEN /\ objects' = Underlay(objects,
                             [o \in {BlobId(worktree[f].content) : f \in found} |->
                                 ObjectFile(DataOf(o), "blob", "own")])
            /\ index' = add_directory(index, repo_path, path, q, worktree, found)
            /\ last' = IndexDone("add", cwd, path, "ok")
       ELSE /\ objects' = write_blob(objects, worktree[q].content)
            /\ index' = add_file(index, repo_path, path,
                                 BlobId(worktree[q].content), worktree[q].mtime)
            /\ last' = IndexDone("add", cwd, path, "ok")
    /\ UNCHANGED <<HEAD, heads, remotes, remoteHead, stray, packs, worktree>>

\* commands/rm.rs for one path, run in the directory cwd.
IndexRm(cwd, path) ==
    LET repo_path == cwd
        q == Resolve(cwd, path)
        removed == remove_path(index, repo_path, path, worktree)
        deleted == IF is_file(worktree, q) THEN {q} ELSE FilesUnder(worktree, q)
    IN
    /\ Step
    /\ IF ~exists(worktree, q)
       THEN /\ last' = IndexDone("rm", cwd, path, "nomatch")
            /\ UNCHANGED <<index, worktree>>
       ELSE IF removed = {}
       THEN /\ last' = IndexDone("rm", cwd, path, "notindexed")
            /\ UNCHANGED <<index, worktree>>
       ELSE /\ index' = [k \in (DOMAIN index) \ removed |-> index[k]]
            /\ worktree' = [f \in (DOMAIN worktree) \ deleted |-> worktree[f]]
            /\ last' = IndexDone("rm", cwd, path, "ok")
    /\ UNCHANGED <<HEAD, heads, remotes, remoteHead, objects, stray, packs>>

\* The index paths as strings, in byte order (`.` sorts before `/`, and `/`
\* before the letters): the order String::cmp gives their names.
PathStrOrder ==
    <<<<"..", "a">>, <<".", "a">>, <<".", "d", "f">>, <<".", "f">>, <<"/", "r", "a">>,
      <<"a">>, <<"d", "f">>, <<"f">>>>

\* sort_by that leaves the entries as they are.
SortByFilenameNone(tree_entries) == tree_entries

\* tree_entries.sort_by(filename) (objects.rs:209-224).
SortByFilename(tree_entries) ==
    LET names == SelectSeq(PathStrOrder,
                           LAMBDA n : \E i \in DOMAIN tree_entries : tree_entries[i][2] = n)
    IN [i \in 1..Len(names) |->
           tree_entries[CHOOSE j \in DOMAIN tree_entries : tree_entries[j][2] = names[i]]]

\* The tree payload write_tree builds (objects.rs:181-229) when the index's
\* HashMap yields its paths in the order `it`: one entry per index path, whose
\* name is the whole path, with the entry's mode and id; then sorted by name.
IndexTreePayload(entries, it) ==
    SortByFilename([i \in DOMAIN it |-> <<entries[it[i]].mode, it[i], entries[it[i]].object_id>>])

\* The orders a HashMap may yield a set of keys in.
Orders(keys) == {it \in [1..Cardinality(keys) -> keys] : Range(it) = keys}

\* objects::write_tree(repo), as commit calls it.
IndexWriteTree(it) ==
    /\ Step
    /\ objects' = write_object(objects, IndexTreePayload(index, it), "tree")
    /\ last' = IndexDone("write_tree", RepoRoot, it,
                         hash_object(IndexTreePayload(index, it), "tree"))
    /\ UNCHANGED <<HEAD, heads, remotes, remoteHead, stray, packs, index, worktree>>

NextIndex ==
    \/ Tick
    \/ \E f \in FileUniverse, c \in UserContents : IndexWriteFile(f, c)
    \/ \E cwd \in WorkDirs, path \in UserPaths : IndexAdd(cwd, path)
    \/ \E cwd \in WorkDirs, path \in UserPaths :
          Resolve(cwd, path) \notin {<<"/">>, RepoRoot} /\ IndexRm(cwd, path)
    \/ \E it \in Orders(DOMAIN index) : IndexWriteTree(it)

SpecIndex == InitIndex /\ [][NextIndex]_vars

\* -------------------------------------------------------------- properties

\* The commits a commit descends from, itself included, read off the ids: a
\* commit's id fixes its parents.
RECURSIVE AncestorsOf(_)
AncestorsOf(oid) ==
    IF TypeOf(oid) = "commit"
    THEN {oid} \cup UNION {AncestorsOf(p) : p \in Range(DataOf(oid).parents)}
    ELSE {oid}

\* new descends from old: old is new or an ancestor of new.
Descends(new, old) == old \in AncestorsOf(new)

\* The id a bundle's packed-refs names for a branch; NoOid when it names none.
LineOid(lines, b) ==
    IF \E i \in DOMAIN lines : lines[i][2] = b
    THEN lines[CHOOSE i \in DOMAIN lines : lines[i][2] = b][1]
    ELSE NoOid

C2_RejectedPushAltersNothing ==
    [][(/\ nops' = nops + 1
        /\ last'.op = "push"
        /\ last'.res = "non-fast-forward")
       => (heads' = heads /\ objects' = objects)]_vars

C4_RefsPointToReadableObjects ==
    /\ \A b \in DOMAIN heads : Readable(objects, heads[b])
    /\ \A b \in DOMAIN remotes : Readable(objects, remotes[b])

\* C5: after a commit or a merge that advanced the current branch, the branch
\* reads an id whose commit object, and the tree object it names, can be read
\* from the object store.
C5_CommitInStoreBeforeRefAdvance ==
    (/\ last.op \in {"commit", "merge"}
     /\ last.res \in {"ok", "merged"})
    => LET new == read_ref(heads, current_branch(HEAD))
       IN /\ Readable(objects, new)
          /\ Readable(objects, DataOf(new).tree)

\* C6: every object read_object could read before repack or gc can be read
\* after it, with the same type and payload.
C6_RepackKeepsObjectsReadable ==
    [][(/\ nops' = nops + 1
        /\ last'.op \in {"repack", "gc"})
       => \A o \in DOMAIN objects :
             /\ Readable(objects', o)
             /\ read_object(objects', o) = read_object(objects, o)]_vars

\* C7: once an object file exists, no operation replaces its bytes: a file
\* that exists before and after a step holds the same bytes.
C7_ObjectFilesNeverRewritten ==
    [][\A o \in (DOMAIN objects) \cap (DOMAIN objects') :
          objects'[o] = objects[o]]_vars

\* The conflict rows of the reconciliation table, for the blob ids of one
\* path in base, ours and theirs (NoOid: the path is absent).
TableConflict(base, ours, theirs) ==
    \/ base = NoOid /\ ours # NoOid /\ theirs # NoOid /\ ours # theirs
    \/ /\ base # NoOid /\ ours # NoOid /\ theirs # NoOid
       /\ base # ours /\ base # theirs /\ ours # theirs
    \/ base # NoOid /\ ours # NoOid /\ ours # base /\ theirs = NoOid
    \/ base # NoOid /\ ours = NoOid /\ theirs # NoOid /\ theirs # base

\* merge of branch b gets as far as reconciling paths: HEAD is on another
\* branch, both tips exist, differ and can be read with their trees, and so
\* can the merge base.
Reconciles(b) ==
    LET cur == current_branch(HEAD)
        ours == read_ref(heads, cur)
        theirs == read_ref(heads, b)
        base == find_merge_base(objects, ours, theirs)
    IN /\ cur # NoBranch
       /\ cur # b
       /\ ours # NoOid
       /\ theirs # NoOid
       /\ ours # theirs
       /\ FilesReadable(objects, ours)
       /\ FilesReadable(objects, theirs)
       /\ (base = NoOid \/ FilesReadable(objects, base))

\* The paths of a merge of branch b that the table reports as conflicts.
ConflictPaths(b) ==
    LET ours == read_ref(heads, current_branch(HEAD))
        theirs == read_ref(heads, b)
        base == find_merge_base(objects, ours, theirs)
        ours_files == get_files_from_commit(objects, ours)
        theirs_files == get_files_from_commit(objects, theirs)
        base_files == IF base = NoOid THEN EmptyMap ELSE get_files_from_commit(objects, base)
    IN {f \in Paths : TableConflict(At(base_files, f), At(ours_files, f), At(theirs_files, f))}

\* C8: a merge that meets a conflicting path reports the conflict, writes no
\* commit and no other object, advances no ref, and leaves HEAD, the index and
\* the working tree as they were.
C8_ConflictLeavesRepositoryUnchanged ==
    [][\A b \in Branches :
          (last'.op = "merge" /\ Reconciles(b) /\ ConflictPaths(b) # {} /\ Merge(b))
          => (/\ last'.res = "conflict"
              /\ UNCHANGED <<HEAD, heads, objects, stray, index, worktree>>)]_vars

\* C8 happens: a merge ended in a conflict on a path both sides edited, and
\* the working-tree file of that path holds ours's content.
C8_Witness ==
    /\ last.op = "merge"
    /\ last.res = "conflict"
    /\ heads = last.pre
    /\ \E f \in ConflictPaths(last.arg) :
          LET ours == read_ref(heads, current_branch(HEAD))
              theirs == read_ref(heads, last.arg)
              ours_files == get_files_from_commit(objects, ours)
              theirs_files == get_files_from_commit(objects, theirs)
          IN /\ f \in DOMAIN ours_files
             /\ f \in DOMAIN theirs_files
             /\ f \in DOMAIN worktree
             /\ worktree[f] = read_object(objects, ours_files[f]).data

\* ---------------------------------------------- reconciliation of one path

\* The blob ids a path can have on one side: absent, or one of three blobs.
Sides == {NoOid} \cup {BlobId(c) : c \in Contents}

\* The (base, ours, theirs) ids of a path merge reconciles: the path is in
\* at least one of the three file maps (merge.rs:171-178).
PathCases == {t \in Sides \X Sides \X Sides : t # <<NoOid, NoOid, NoOid>>}

\* A path waits to be reconciled.
InitReconcile ==
    /\ HEAD = <<"ref", "master">>
    /\ heads = [b \in {"master"} |-> NullCommitId(0)]
    /\ remotes = EmptyMap
    /\ remoteHead = NoOid
    /\ objects = InitObjects(0)
    /\ stray = EmptyMap
    /\ packs = {}
    /\ index = EmptyMap
    /\ worktree = EmptyMap
    /\ now = 0
    /\ nops = 0
    /\ srv = NoRequests
    /\ \E t \in PathCases :
          last = [op |-> "path", arg |-> t,
                  res |-> Outcome(FALSE, FALSE, NoOid, "pending"), pre |-> EmptyMap]

\* One turn of merge's loop over the paths (merge.rs:180-303): the outcome
\* for the path is computed from its three ids.
Reconcile ==
    /\ last.op = "path"
    /\ last' = [last EXCEPT !.op = "reconciled",
                            !.res = MergeOutcome(last.arg[1], last.arg[2], last.arg[3])]
    /\ UNCHANGED <<HEAD, heads, remotes, remoteHead, objects, stray, packs, index, worktree, now, nops, srv>>

SpecReconcile == InitReconcile /\ [][Reconcile]_vars

\* The row of the reconciliation table for the ids of one path.
TableRow(base, ours, theirs) ==
    IF TableConflict(base, ours, theirs) THEN "conflict"
    ELSE IF \/ base = NoOid /\ ours = NoOid /\ theirs # NoOid
            \/ base # NoOid /\ ours = base /\ theirs # NoOid /\ theirs # base
    THEN "theirs"
    ELSE IF \/ base = NoOid /\ ours # NoOid /\ theirs = NoOid
            \/ base # NoOid /\ ours # NoOid /\ ours # base /\ theirs = base
            \/ ours # NoOid /\ ours = theirs /\ base # ours
            \/ base # NoOid /\ ours = base /\ theirs = base
    THEN "ours"
    ELSE IF \/ base # NoOid /\ ours = NoOid /\ theirs = base
            \/ base # NoOid /\ ours = base /\ theirs = NoOid
            \/ base # NoOid /\ ours = NoOid /\ theirs = NoOid
    THEN "drop"
    ELSE "none"

\* C9: the outcome merge computes for a path is the row of the table: theirs
\* is taken when only theirs added or changed the path; ours when only ours
\* added or changed it, when both made the same add or edit, and when all
\* three are equal; the path is dropped when one side deleted it and the other
\* left it as in base or when both deleted it; and a conflict is reported
\* exactly for add/add, edit/edit, edit/delete and delete/edit.
C9_OutcomeMatchesTable ==
    last.op = "reconciled" =>
        LET base == last.arg[1]
            ours == last.arg[2]
            theirs == last.arg[3]
            row == TableRow(base, ours, theirs)
            r == last.res
        IN /\ row # "none"
           /\ r.conflict <=> row = "conflict"
           /\ row = "theirs" => (r.keep /\ r.oid = theirs)
           /\ row = "ours" => (r.keep /\ r.oid = ours)
           /\ row = "drop" => ~r.keep

\* C9 happens: a path ours edited and theirs deleted was reconciled, and a
\* conflict was reported.
C9_Witness ==
    /\ last.op = "reconciled"
    /\ last.arg[1] # NoOid
    /\ last.arg[2] \notin {NoOid, last.arg[1]}
    /\ last.arg[3] = NoOid
    /\ last.res.conflict

\* C10: a merge that meets no conflict writes a commit whose parents are the
\* tip of the current branch and the tip of the merged branch, in that order,
\* with the message "Merge branch '<theirs>' into <ours>", and points the
\* current branch at it; no other ref changes, and HEAD is as before.
C10_CleanMergeCommit ==
    [][\A b \in Branches :
          (last'.op = "merge" /\ Reconciles(b) /\ ConflictPaths(b) = {} /\ Merge(b))
          => LET cur == current_branch(HEAD)
                 new == read_ref(heads', cur)
             IN /\ last'.res = "merged"
                /\ new # heads[cur]
                /\ TypeOf(new) = "commit"
                /\ DataOf(new).parents = <<heads[cur], heads[b]>>
                /\ DataOf(new).message = <<"Merge branch '", b, "' into ", cur>>
                /\ new \in (DOMAIN objects') \cup (DOMAIN stray')
                /\ DOMAIN heads' = DOMAIN heads
                /\ \A other \in (DOMAIN heads) \ {cur} : heads'[other] = heads[other]
                /\ HEAD' = HEAD]_vars

\* C10 happens: a merge of two different tips ended with a merge commit on
\* the current branch, whose parents are the two tips as they were.
C10_Witness ==
    /\ last.op = "merge"
    /\ last.res = "merged"
    /\ LET cur == current_branch(HEAD)
       IN /\ cur \in DOMAIN last.pre
          /\ last.arg \in DOMAIN last.pre
          /\ last.pre[cur] # last.pre[last.arg]
          /\ DataOf(heads[cur]).parents = <<last.pre[cur], last.pre[last.arg]>>
          /\ heads[last.arg] = last.pre[last.arg]

\* The file set the reconciliation table gives for a merge of branch b into
\* the current branch: per path the blob of the row's side, no entry for a
\* dropped path.
ReconciledFiles(b) ==
    LET ours == read_ref(heads, current_branch(HEAD))
        theirs == read_ref(heads, b)
        base == find_merge_base(objects, ours, theirs)
        ours_files == get_files_from_commit(objects, ours)
        theirs_files == get_files_from_commit(objects, theirs)
        base_files == IF base = NoOid THEN EmptyMap ELSE get_files_from_commit(objects, base)
        row(f) == TableRow(At(base_files, f), At(ours_files, f), At(theirs_files, f))
    IN [f \in {g \in Paths : row(g) \in {"ours", "theirs"}} |->
           IF row(f) = "ours" THEN ours_files[f] ELSE theirs_files[f]]

\* C11: the tree of the merge commit is the tree of the reconciled file set:
\* every kept path with the chosen blob and no dropped path, whatever the
\* index held before the merge.
C11_MergeTreeIsReconciledSet ==
    [][\A b \in Branches :
          (last'.op = "merge" /\ Reconciles(b) /\ ConflictPaths(b) = {} /\ Merge(b))
          => LET new == read_ref(heads', current_branch(HEAD))
             IN DataOf(new).tree = TreeId(ReconciledFiles(b))]_vars

CommitsIn(objs) == {o \in DOMAIN objs : TypeOf(o) = "commit"}

\* C13: after a successful commit with HEAD on branch b whose tip was P, b
\* reads a new commit C, which is also what HEAD resolves to; C has P as its
\* only parent and the tree written from the index as its tree; HEAD's content
\* and every other branch ref are unchanged.
C13_CommitAdvancesBranch ==
    [][\A m \in Messages :
          (/\ last'.op = "commit"
           /\ last'.res = "ok"
           /\ current_branch(HEAD) \in DOMAIN heads
           /\ Commit(m))
          => LET b == current_branch(HEAD)
                 C == read_ref(heads', b)
             IN /\ C # heads[b]
                /\ TypeOf(C) = "commit"
                /\ get_head_commit(HEAD', heads') = C
                /\ DataOf(C).parents = <<heads[b]>>
                /\ DataOf(C).message = m
                /\ Readable(objects', DataOf(C).tree)
                /\ TreeFilesOf(read_object(objects', DataOf(C).tree).data) = index
                /\ HEAD' = HEAD
                /\ DOMAIN heads' = DOMAIN heads
                /\ \A other \in (DOMAIN heads) \ {b} : heads'[other] = heads[other]]_vars

\* C13 happens: a commit of a staged file succeeded on a branch that had a
\* tip, and the branch reads a commit whose only parent is that tip.
C13_Witness ==
    /\ last.op = "commit"
    /\ last.res = "ok"
    /\ index # EmptyMap
    /\ LET b == current_branch(HEAD)
       IN /\ b \in DOMAIN last.pre
          /\ b \in DOMAIN heads
          /\ DataOf(heads[b]).parents = <<last.pre[b]>>

\* C14: a commit whose tree, built from the index, is the tree of HEAD's
\* commit reports that there is nothing to commit, creates no commit object
\* and leaves every ref, HEAD and the index unchanged.
C14_NothingToCommit ==
    [][\A m \in Messages :
          (/\ last'.op = "commit"
           /\ current_branch(HEAD) \in DOMAIN heads
           /\ Readable(objects, heads[current_branch(HEAD)])
           /\ TypeOf(heads[current_branch(HEAD)]) = "commit"
           /\ DataOf(heads[current_branch(HEAD)]).tree = TreeId(index)
           /\ Commit(m))
          => (/\ last'.res = "nothing"
              /\ CommitsIn(objects') = CommitsIn(objects)
              /\ CommitsIn(stray') = CommitsIn(stray)
              /\ UNCHANGED <<HEAD, heads, index>>)]_vars

\* C14 happens: with a file in the index, a commit found the index's tree to
\* be the tree of HEAD's commit and left the refs as they were.
C14_Witness ==
    /\ last.op = "commit"
    /\ last.res = "nothing"
    /\ index # EmptyMap
    /\ heads = last.pre
    /\ DataOf(heads[current_branch(HEAD)]).tree = TreeId(index)

\* C15: while the server handles two pushes at once, every change of a
\* branch ref is a fast-forward of the value it replaces.
C15_ConcurrentPushesFastForward ==
    [][\A b \in (DOMAIN heads) \cap (DOMAIN heads') :
          heads'[b] # heads[b] => heads[b] \in AncestorsOf(heads'[b])]_vars

\* C16: a bundle the server made for a fetch has, for every id its
\* packed-refs lists, the commit object among its object files.
C16_ServedBundleSelfConsistent ==
    \A r \in Requests :
        (srv[r].kind = "fetch" /\ srv[r].pc = "done")
        => \A i \in DOMAIN srv[r].bundle.packed_refs :
              srv[r].bundle.packed_refs[i][1] \in DOMAIN srv[r].bundle.objects

\* C17: a checkout that fails after the branch name was accepted leaves
\* HEAD, the index and the working tree as they were.
C17_FailedCheckoutChangesNothing ==
    [][(/\ nops' = nops + 1
        /\ last'.op = "checkout"
        /\ last'.res = "err-after-head")
       => UNCHANGED <<HEAD, index, worktree>>]_vars

\* C18: after a fetch-mode ingest of the bundle a sender made, every object
\* file of the sender is in the object store and, for every branch of the
\* sender, nested names included, the remote-tracking ref of that branch
\* holds the sender's id.
C18_FetchMirrorsEveryBranch ==
    last.op = "fetch-from" =>
        /\ \A o \in Closure(Range(last.arg)) : o \in DOMAIN objects
        /\ \A b \in DOMAIN last.arg :
              /\ b \in DOMAIN remotes
              /\ remotes[b] = last.arg[b]

\* C19: a checkout that succeeds from a state whose index is the tree of the
\* current commit leaves HEAD on the branch, the index equal to the tree of
\* the branch's commit, no working-tree file for a path of the source tree
\* that the target tree lacks, and every file of the target tree written with
\* its blob's content.
C19_CheckoutInstallsTargetTree ==
    [][\A b \in Branches, f \in BOOLEAN :
          (/\ last'.op = "checkout"
           /\ last'.res = "ok"
           /\ get_head_commit(HEAD, heads) # NoOid
           /\ FilesReadable(objects, get_head_commit(HEAD, heads))
           /\ index = get_files_from_commit(objects, get_head_commit(HEAD, heads))
           /\ Checkout(b, f))
          => LET source == get_files_from_commit(objects, get_head_commit(HEAD, heads))
                 target == get_files_from_commit(objects, read_ref(heads', b))
             IN /\ HEAD' = <<"ref", b>>
                /\ index' = target
                /\ \A p \in (DOMAIN source) \ (DOMAIN target) : p \notin DOMAIN worktree'
                /\ \A p \in DOMAIN target :
                      /\ p \in DOMAIN worktree'
                      /\ worktree'[p] = DataOf(target[p])]_vars

\* C19 happens: a checkout succeeded, HEAD is on the branch, and the index and
\* the working tree hold the file of the branch's commit.
C19_Witness ==
    /\ last.op = "checkout"
    /\ last.res = "ok"
    /\ HEAD = <<"ref", last.arg>>
    /\ last.arg \in DOMAIN heads
    /\ FilesReadable(objects, heads[last.arg])
    /\ index # EmptyMap
    /\ index = get_files_from_commit(objects, heads[last.arg])
    /\ \A p \in DOMAIN index : p \in DOMAIN worktree /\ worktree[p] = DataOf(index[p])

UntrackedInTheWay(b) ==
    LET cur == get_head_commit(HEAD, heads)
        source == CurrentTreeFiles(objects, cur)
        target == get_files_from_commit(objects, read_ref(heads, b))
    IN {p \in DOMAIN worktree : /\ p \notin DOMAIN source
                                /\ p \notin DOMAIN index
                                /\ p \in DOMAIN target}

\* C21: a switch to a branch whose tree would write a path at which the
\* working tree holds an untracked file fails with the invalid-argument error
\* and leaves HEAD, the refs, the index and the working tree unchanged.
C21_UntrackedFileBlocksSwitch ==
    [][\A b \in Branches :
          (/\ last'.op = "checkout"
           /\ b \in DOMAIN heads
           /\ FilesReadable(objects, heads[b])
           /\ CurrentTreeOk(objects, get_head_commit(HEAD, heads))
           /\ UntrackedInTheWay(b) # {}
           /\ Checkout(b, FALSE))
          => (/\ last'.res = "invalid-argument"
              /\ UNCHANGED <<HEAD, heads, index, worktree>>)]_vars

\* C22: creating a branch whose ref exists, by `branch <name>` or by
\* `checkout -b <name>`, fails with the branch-exists error and leaves the
\* ref holding the id it held.
C22_CreateExistingBranchFails ==
    [][\A b \in Branches :
          (/\ last'.op \in {"branch", "checkout"}
           /\ b \in DOMAIN heads
           /\ (BranchCreate(b) \/ Checkout(b, TRUE)))
          => (/\ last'.res = "exists"
              /\ b \in DOMAIN heads'
              /\ heads'[b] = heads[b])]_vars

\* The parents of a commit as the object store tells them: those its id
\* names when its object is in the store, none when it is not.
StoreParents(objs, c) ==
    IF c \in DOMAIN objs /\ TypeOf(c) = "commit" THEN Range(DataOf(c).parents) ELSE {}

\* The commits reachable from a set of commits over the parent links the
\* object store holds, the commits of the set included.
RECURSIVE ReachIn(_, _)
ReachIn(objs, cs) ==
    LET more == cs \cup UNION {StoreParents(objs, c) : c \in cs}
    IN IF more = cs THEN cs ELSE ReachIn(objs, more)

\* The commits that are an ancestor-or-self of both a and b.
CommonAncestors(objs, a, b) == ReachIn(objs, {a}) \cap ReachIn(objs, {b})

\* C23: find_merge_base(a, b) returns an ancestor-or-self of both a and b
\* whenever there is one, and returns None exactly when a and b have no
\* common ancestor.
C23_MergeBaseIsCommonAncestor ==
    last.op = "merge-base" =>
        LET common == CommonAncestors(objects, last.arg[1], last.arg[2])
        IN /\ common # {} => last.res \in common
           /\ last.res = NoOid <=> common = {}

\* C23 happens: the merge base of two commits neither of which descends from
\* the other was computed, and it is a common ancestor of both.
C23_Witness ==
    /\ last.op = "merge-base"
    /\ last.res \notin {NoOid, last.arg[1], last.arg[2]}
    /\ last.res \in CommonAncestors(objects, last.arg[1], last.arg[2])

\* C24: the merge base find_merge_base returns is a lowest common ancestor:
\* no proper descendant of it is an ancestor-or-self of both commits.
C24_MergeBaseIsLowest ==
    (last.op = "merge-base" /\ last.res # NoOid) =>
        \A d \in CommonAncestors(objects, last.arg[1], last.arg[2]) :
            d # last.res => last.res \notin ReachIn(objects, {d})

\* The commits of the store that have no parent.
Roots(objs) == {c \in CommitsIn(objs) : DataOf(c).parents = << >>}

LexOrder == <<"feat", "master", "topic/x">>

LexRank(name) == CHOOSE i \in DOMAIN LexOrder : LexOrder[i] = name

\* C26: after any sequence of create_branch and delete_branch, list_branches
\* returns exactly the branches created and not deleted since, in ascending
\* lexical order and without duplicates; delete_branch of a branch that does
\* not exist fails and changes nothing.
C26_ListBranchesIsLiveSet ==
    LET listed == list_branches(heads)
    IN /\ Range(listed) = last.arg.live
       /\ \A i \in DOMAIN listed : \A j \in DOMAIN listed :
             i < j => LexRank(listed[i]) < LexRank(listed[j])
       /\ (last.op = "delete_branch" /\ last.arg.name \notin DOMAIN last.pre)
             => (last.res = "err" /\ heads = last.pre)

\* The repository-relative path of a file or directory of the working tree.
RepoRelative(q) == strip_prefix(q, RepoRoot)

\* C27: add_file inserts or overwrites exactly one entry, keyed by the
\* file's repository-relative path, with the given id, and leaves every other
\* entry as it was; remove_path of a file removes exactly that file's entry
\* and does nothing when there is none; remove_path of a directory removes
\* exactly the entries under that directory.
C27_StageAndUnstage ==
    [][\A cwd \in WorkDirs, path \in UserPaths :
          LET q == Resolve(cwd, path)
              key == RepoRelative(q)
              under == {k \in DOMAIN index : starts_with(join(RepoRoot, k), q)}
          IN /\ (last'.op = "add" /\ is_file(worktree, q) /\ IndexAdd(cwd, path)) =>
                   /\ DOMAIN index' = (DOMAIN index) \cup {key}
                   /\ index'[key].object_id = BlobId(worktree[q].content)
                   /\ \A k \in (DOMAIN index) \ {key} : index'[k] = index[k]
             /\ (last'.op = "rm" /\ is_file(worktree, q) /\ IndexRm(cwd, path)) =>
                   /\ index' = [k \in (DOMAIN index) \ {key} |-> index[k]]
                   /\ key \notin DOMAIN index => last'.res = "notindexed"
             /\ (last'.op = "rm" /\ is_dir(worktree, q) /\ IndexRm(cwd, path)) =>
                   index' = [k \in (DOMAIN index) \ under |-> index[k]]]_vars

\* C28: every path stored in the index is repository-relative (it names a
\* file of the working tree from the repository's directory), and has no `.`
\* or `..` component and no leading `./`.
C28_IndexPathsNormalized ==
    \A k \in DOMAIN index :
        /\ ~is_absolute(k)
        /\ \A i \in DOMAIN k : k[i] \notin {".", ".."}
        /\ join(RepoRoot, k) \in FileUniverse

\* C29: in every tree write_tree writes, no entry name has a `/` (the name is
\* one component) and the entry of a file has mode 100644.
C29_TreeNamesHaveNoSlash ==
    last.op = "write_tree" =>
        \A i \in DOMAIN DataOf(last.res) :
            /\ Len(DataOf(last.res)[i][2]) = 1
            /\ DataOf(last.res)[i][1] = "100644"

\* The position of a path's name in byte order.
StrRank(name) == CHOOSE i \in DOMAIN PathStrOrder : PathStrOrder[i] = name

\* C30: the tree write_tree writes depends on the index's (path, id) pairs
\* only: whatever order the index yields its entries in and whatever their
\* mtimes, the root id is the same, its entries are sorted by name, and for
\* an empty index it is the id of the empty tree.
C30_WriteTreeIsFunctionOfEntries ==
    last.op = "write_tree" =>
        /\ \A it \in Orders(DOMAIN index) : \A mt \in [DOMAIN index -> 0..MaxTime] :
              hash_object(IndexTreePayload(
                  [k \in DOMAIN index |-> IndexEntry(mt[k], index[k].object_id)], it), "tree")
              = last.res
        /\ \A i \in DOMAIN DataOf(last.res) : \A j \in DOMAIN DataOf(last.res) :
              i < j => StrRank(DataOf(last.res)[i][2]) < StrRank(DataOf(last.res)[j][2])
        /\ {<<DataOf(last.res)[i][2], DataOf(last.res)[i][3]>> : i \in DOMAIN DataOf(last.res)}
              = {<<k, index[k].object_id>> : k \in DOMAIN index}
        /\ index = EmptyMap => last.res = EmptyTreeId

\* C30 happens: a tree was written from an index of two entries that the
\* index yielded against the order of their names.
C30_Witness ==
    /\ last.op = "write_tree"
    /\ Len(last.arg.path) = 2
    /\ StrRank(last.arg.path[1]) > StrRank(last.arg.path[2])
    /\ Len(DataOf(last.res)) = 2


\* C31: after init, HEAD is `ref: refs/heads/master` and current_branch is
\* master, the empty tree is readable as a tree with an empty payload, and
\* refs/heads/master names a readable commit with no parent whose tree is the
\* empty tree.
C31_InitState ==
    last.op = "init" =>
        /\ HEAD = <<"ref", "master">>
        /\ current_branch(HEAD) = "master"
        /\ Readable(objects, EmptyTreeId)
        /\ read_object(objects, EmptyTreeId) = [object_type |-> "tree", data |-> << >>]
        /\ LET c == read_ref(heads, "master")
           IN /\ c # NoOid
              /\ Readable(objects, c)
              /\ read_object(objects, c).object_type = "commit"
              /\ ParentsOf(objects, c) = << >>
              /\ TreeOfCommit(objects, c) = EmptyTreeId

\* init run again, a second later, after repack has emptied the object store.
C31_Witness ==
    /\ last.op = "init"
    /\ packs # {}
    /\ heads["master"] = NullCommitId(1)


\* ------------------------------------------------- the bytes of object files

\* The longest payload written in the byte-level model of the object store.
MaxLen == 2

\* The bytes a payload is made of: NUL, a space and a letter.
Bytes == {0, 32, 120}

RECURSIVE PayloadsOf(_)
PayloadsOf(n) ==
    IF n = 0 THEN {<< >>}
    ELSE PayloadsOf(n - 1) \cup {Append(d, b) : d \in {e \in PayloadsOf(n - 1) : Len(e) = n - 1}, b \in Bytes}

Payloads == PayloadsOf(MaxLen)

\* The object types write_object is called with, as the bytes of their names.
TypeBytes ==
    [blob |-> <<98, 108, 111, 98>>, tree |-> <<116, 114, 101, 101>>,
     commit |-> <<99, 111, 109, 109, 105, 116>>]

ObjectTypes == DOMAIN TypeBytes

\* format!("{}", n): the decimal digits of n.
RECURSIVE Decimal(_)
Decimal(n) == IF n < 10 THEN <<48 + n>> ELSE Append(Decimal(n \div 10), 48 + (n % 10))

\* ZlibEncoder / ZlibDecoder: a lossless container around the content.
Deflate(content) == <<"zlib", content>>

Inflate(file) == file[2]

\* The file write_object composes (objects.rs:49-58): the header
\* `<type> <len>`, a NUL, the payload; compressed.
EncodeObject(data, object_type) ==
    Deflate(TypeBytes[object_type] \o <<32>> \o Decimal(Len(data)) \o <<0>> \o data)

\* NulPosition that finds the last NUL.
NulPositionLast(bytes) ==
    IF \E i \in DOMAIN bytes : bytes[i] = 0
    THEN CHOOSE i \in DOMAIN bytes : bytes[i] = 0 /\ \A j \in DOMAIN bytes : bytes[j] = 0 => j <= i
    ELSE 0

\* iter().position(|&b| b == 0) (objects.rs:77-80): the first NUL; 0 for None.
NulPosition(bytes) ==
    IF \E i \in DOMAIN bytes : bytes[i] = 0
    THEN CHOOSE i \in DOMAIN bytes : bytes[i] = 0 /\ \A j \in 1..(i - 1) : bytes[j] # 0
    ELSE 0

\* header.split(' '): how many parts, and the first of them.
SplitCount(header) == 1 + Cardinality({i \in DOMAIN header : header[i] = 32})

FirstPart(header) ==
    IF \E i \in DOMAIN header : header[i] = 32
    THEN SubSeq(header, 1, (CHOOSE i \in DOMAIN header :
                                header[i] = 32 /\ \A j \in 1..(i - 1) : header[j] # 32) - 1)
    ELSE header

\* read_object on a loose file (objects.rs:71-93): the type is the header up
\* to its space and the payload is everything after the first NUL; the length
\* in the header is not read.
DecodeObject(file) ==
    LET decompressed == Inflate(file)
        null_pos == NulPosition(decompressed)
        header == SubSeq(decompressed, 1, null_pos - 1)
    IN IF null_pos = 0 \/ SplitCount(header) # 2 THEN [ok |-> FALSE]
       ELSE [ok |-> TRUE, object_type |-> FirstPart(header),
             data |-> SubSeq(decompressed, null_pos + 1, Len(decompressed))]

\* An empty objects directory, and one (type, payload) to be written.
InitObjectStore ==
    /\ HEAD = <<"ref", "master">>
    /\ heads = EmptyMap
    /\ remotes = EmptyMap
    /\ remoteHead = NoOid
    /\ objects = EmptyMap
    /\ stray = EmptyMap
    /\ packs = {}
    /\ index = EmptyMap
    /\ worktree = EmptyMap
    /\ now = 0
    /\ nops = 0
    /\ srv = NoRequests
    /\ \E t \in ObjectTypes, d \in Payloads :
          last = [op |-> "object", arg |-> [object_type |-> t, data |-> d],
                  res |-> NoOid, pre |-> NoOid]

\* write_object(objects_dir, data, type): the file is written unless it
\* exists; the id is returned.  pre is the id the write before it returned.
ObjectWrite ==
    LET data == last.arg.data
        object_type == last.arg.object_type
        object_id == hash_object(data, object_type)
    IN
    /\ nops < 2
    /\ nops' = nops + 1
    /\ objects' = IF object_id \in DOMAIN objects THEN objects
                  ELSE Put(objects, object_id, EncodeObject(data, object_type))
    /\ last' = [op |-> "write_object", arg |-> last.arg, res |-> object_id,
                pre |-> IF last.op = "object" THEN NoOid ELSE last.pre]
    /\ UNCHANGED <<HEAD, heads, remotes, remoteHead, stray, packs, index, worktree, now, srv>>

\* read_object(repo, id) for the id the write returned.
ObjectRead ==
    /\ last.op = "write_object"
    /\ last' = [op |-> "read_object", arg |-> last.arg,
                res |-> IF last.res \in DOMAIN objects
                        THEN DecodeObject(objects[last.res]) ELSE [ok |-> FALSE],
                pre |-> last.res]
    /\ UNCHANGED <<HEAD, heads, remotes, remoteHead, objects, stray, packs, index, worktree, now, nops, srv>>

NextObjects == ObjectWrite \/ ObjectRead

SpecObjects == InitObjectStore /\ [][NextObjects]_vars

C33_RepackLeavesNoLooseObject ==
    [][(last'.op \in {"repack", "gc"} /\ nops' = nops + 1) =>
          /\ now \in packs'
          /\ \A o \in DOMAIN objects : o \notin DOMAIN objects']_vars

\* gc has run in a repository whose index names a blob that no commit
\* reaches.
C33_Witness ==
    /\ last.op = "gc"
    /\ packs # {}
    /\ \E p \in DOMAIN index : TypeOf(index[p]) = "blob"


\* What refs/remotes/R/HEAD holds when it mirrors the sender's HEAD: a pointer
\* to the remote-tracking ref of the sender's branch, or the sender's id.
MirrorOf(head) == IF head[1] = "ref" THEN <<"ref", head[2]>> ELSE <<"oid", head[2]>>

\* C34: after a fetch-mode ingest of a bundle with a HEAD file,
\* refs/remotes/R/HEAD mirrors the sender's HEAD, attached or detached.
C34_FetchMirrorsHead ==
    [][\A m \in SenderRepos, enc \in Encodings, head \in SenderHeads :
          (last'.op = "fetch-from" /\ FetchFrom(m, enc, head))
          => remoteHead' = MirrorOf(head)]_vars


\* ------------------------------------------------------- the files of refs

\* In this specification `heads` holds every ref file of .git by its path
\* below .git, a sequence of components: HEAD and the files under refs/.

\* The ref names read_ref and update_ref are called with.
RefArgs ==
    {<<"HEAD">>, <<"feat">>, <<"origin">>, <<"origin", "feat">>,
     <<"refs", "heads", "feat">>, <<"refs", "tags", "feat">>,
     <<"refs", "remotes", "origin", "feat">>}

IsPrefix(p, q) == Len(p) <= Len(q) /\ SubSeq(q, 1, Len(p)) = p

\* Path::exists: a file, a directory init made, or a directory above a file.
PathExists(files, p) ==
    \/ p \in DOMAIN files
    \/ p \in {<<"refs">>, <<"refs", "heads">>, <<"refs", "tags">>}
    \/ \E f \in DOMAIN files : IsPrefix(p, f)

\* resolve_ref_path that probes refs/tags before refs/heads.
resolve_ref_path_tags_first(files, ref_name) ==
    IF Len(ref_name) > 1 /\ ref_name[1] = "refs" THEN ref_name
    ELSE IF ref_name = <<"HEAD">> THEN <<"HEAD">>
    ELSE LET candidates == << <<"refs", "tags">> \o ref_name,
                              <<"refs", "heads">> \o ref_name,
                              <<"refs", "remotes">> \o ref_name >>
             found == {i \in 1..3 : PathExists(files, candidates[i])}
         IN IF found = {} THEN <<"refs", "heads">> \o ref_name
            ELSE candidates[CHOOSE i \in found : \A j \in found : i <= j]

\* resolve_ref_path (refs.rs:19-46).
resolve_ref_path(files, ref_name) ==
    IF Len(ref_name) > 1 /\ ref_name[1] = "refs" THEN ref_name
    ELSE IF ref_name = <<"HEAD">> THEN <<"HEAD">>
    ELSE LET candidates == << <<"refs", "heads">> \o ref_name,
                              <<"refs", "tags">> \o ref_name,
                              <<"refs", "remotes">> \o ref_name >>
             found == {i \in 1..3 : PathExists(files, candidates[i])}
         IN IF found = {} THEN <<"refs", "heads">> \o ref_name
            ELSE candidates[CHOOSE i \in found : \A j \in found : i <= j]

\* read_ref (refs.rs:6-16) on the files: the trimmed content; "err" when the
\* path does not exist or is a directory.
ReadRefFile(files, ref_name) ==
    LET ref_path == resolve_ref_path(files, ref_name)
    IN IF ref_path \in DOMAIN files THEN files[ref_path] ELSE "err"

\* update_ref (refs.rs:49-61) on the files: create_dir_all of the parent fails
\* when a file is in the way, fs::write fails on a directory.
CanWriteRef(files, ref_path) ==
    /\ \A f \in DOMAIN files : ~(f # ref_path /\ IsPrefix(f, ref_path))
    /\ ~(ref_path \notin DOMAIN files /\ PathExists(files, ref_path))

UpdateRefFile(files, ref_name, commit_id) ==
    LET ref_path == resolve_ref_path(files, ref_name)
    IN IF CanWriteRef(files, ref_path) THEN Put(files, ref_path, commit_id) ELSE files

RefFileDone(op, ref_name, res) ==
    [op |-> op, arg |-> ref_name, res |-> res, pre |-> heads,
     path |-> resolve_ref_path(heads, ref_name)]

\* The ref files after init.
InitRefFiles ==
    /\ HEAD = <<"ref", "master">>
    /\ heads = Put(Put(EmptyMap, <<"HEAD">>, <<"ref", "master">>),
                   <<"refs", "heads", "master">>, NullCommitId(0))
    /\ remotes = EmptyMap
    /\ remoteHead = NoOid
    /\ objects = InitObjects(0)
    /\ stray = EmptyMap
    /\ packs = {}
    /\ index = EmptyMap
    /\ worktree = EmptyMap
    /\ now = 0
    /\ nops = 0
    /\ last = [op |-> "init", arg |-> << >>, res |-> "ok", pre |-> EmptyMap, path |-> << >>]
    /\ srv = NoRequests

RefFileUpdate(ref_name, commit_id) ==
    /\ Step
    /\ heads' = UpdateRefFile(heads, ref_name, commit_id)
    /\ last' = RefFileDone("update_ref", ref_name,
                           IF CanWriteRef(heads, resolve_ref_path(heads, ref_name))
                           THEN commit_id ELSE "err")
    /\ UNCHANGED <<HEAD, remotes, remoteHead, objects, stray, packs, index, worktree>>

RefFileRead(ref_name) ==
    /\ Step
    /\ last' = RefFileDone("read_ref", ref_name, ReadRefFile(heads, ref_name))
    /\ UNCHANGED <<HEAD, heads, remotes, remoteHead, objects, stray, packs, index, worktree>>

NextRefFiles ==
    \/ \E n \in RefArgs, c \in {NullCommitId(0), E0} : RefFileUpdate(n, c)
    \/ \E n \in RefArgs : RefFileRead(n)

SpecRefFiles == InitRefFiles /\ [][NextRefFiles]_vars

\* The three places a short name is looked for, in order.
Probes(ref_name) ==
    << <<"refs", "heads">> \o ref_name, <<"refs", "tags">> \o ref_name,
       <<"refs", "remotes">> \o ref_name >>

\* C35: resolve_ref_path maps a name under refs/ to itself and HEAD to the
\* HEAD file; any other name goes to the first existing of refs/heads/<name>,
\* refs/tags/<name>, refs/remotes/<name>, and to refs/heads/<name> when none
\* exists; and read_ref by short name returns the id update_ref wrote under
\* refs/heads/<name>.
C35_ResolveRefPath ==
    /\ last.op \in {"read_ref", "update_ref"} =>
          LET n == last.arg
              ps == Probes(n)
          IN /\ n[1] = "refs" => last.path = n
             /\ n = <<"HEAD">> => last.path = <<"HEAD">>
             /\ (n[1] # "refs" /\ n # <<"HEAD">>) =>
                   /\ \A i \in 1..3 :
                         (PathExists(last.pre, ps[i]) /\ \A j \in 1..(i - 1) : ~PathExists(last.pre, ps[j]))
                         => last.path = ps[i]
                   /\ (\A i \in 1..3 : ~PathExists(last.pre, ps[i])) => last.path = ps[1]
    /\ \A n \in RefArgs :
          (n[1] # "refs" /\ n # <<"HEAD">> /\ (<<"refs", "heads">> \o n) \in DOMAIN heads)
          => ReadRefFile(heads, n) = heads[<<"refs", "heads">> \o n]

\* A short name was read while a tag and a branch of that name both existed,
\* the two holding different ids.
C35_Witness ==
    /\ last.op = "read_ref"
    /\ last.arg = <<"feat">>
    /\ <<"refs", "tags", "feat">> \in DOMAIN heads
    /\ <<"refs", "heads", "feat">> \in DOMAIN heads
    /\ heads[<<"refs", "tags", "feat">>] # heads[<<"refs", "heads", "feat">>]
    /\ last.res = heads[<<"refs", "heads", "feat">>]


\* ------------------------------------------------------------- pack files

\* The number of loose objects create_pack packs.
MaxPack == 2

\* The payloads of the loose objects: empty, one byte, and two long runs of
\* one letter that differ in a single byte.
PackPayloads == {<< >>, <<120>>, [i \in 1..16 |-> 97], [i \in 1..17 |-> 97]}

PackInputs == {hash_object(d, "blob") : d \in PackPayloads} \cup {hash_object(<< >>, "tree")}

\* One byte of a file.  A byte written as such has kind "b" and its value; the
\* j-th byte of the 20 bytes of an id has kind "id"; the j-th byte of the zlib
\* stream of a content has kind "z".  The values of the bytes of an id and of a
\* stream are not known to the model.
Cell(kind, v, i) == [k |-> kind, v |-> v, i |-> i]

Plain(bytes) == [j \in 1..Len(bytes) |-> Cell("b", bytes[j], 0)]

\* hex::decode(id): the 20 bytes of an id.
IdCells(oid) == [j \in 1..20 |-> Cell("id", oid, j)]

\* ZlibEncoder over a content: the stream, 6 bytes longer than the content
\* (header and checksum).
ZlibCells(content) == [j \in 1..(Len(content) + 6) |-> Cell("z", content, j)]

\* to_be_bytes of an n-byte unsigned integer, and from_be_bytes.
RECURSIVE to_be_bytes(_, _)
to_be_bytes(v, n) == IF n = 0 THEN << >> ELSE Append(to_be_bytes(v \div 256, n - 1), v % 256)

RECURSIVE from_be_bytes(_)
from_be_bytes(bytes) ==
    IF bytes = << >> THEN 0
    ELSE 256 * from_be_bytes(SubSeq(bytes, 1, Len(bytes) - 1)) + bytes[Len(bytes)]

RECURSIVE from_le_bytes(_)
from_le_bytes(bytes) == IF bytes = << >> THEN 0 ELSE bytes[1] + 256 * from_le_bytes(Tail(bytes))

RECURSIVE Flatten(_)
Flatten(seqs) == IF seqs = << >> THEN << >> ELSE Head(seqs) \o Flatten(Tail(seqs))

\* compute_delta (pack.rs:70-105): for each position of the target the
\* longest run, of at most 16 bytes, that also starts somewhere in the base; a
\* run of 4 or more becomes a copy (marker 0, offset, length), anything else an
\* insert of one byte (marker 1, the byte).  The base is the stored, compressed
\* data of the base object; a byte of a stream equals no byte of a payload.
MatchLen(base, target, i, j) ==
    LET ok(m) == \A n \in 0..(m - 1) :
                    /\ i + n <= Len(target)
                    /\ j + n <= Len(base)
                    /\ base[j + n].k = "b"
                    /\ base[j + n].v = target[i + n]
    IN CHOOSE m \in 0..16 : ok(m) /\ (m = 16 \/ ~ok(m + 1))

RECURSIVE compute_delta_from(_, _, _)
compute_delta_from(base, target, i) ==
    IF i > Len(target) THEN << >>
    ELSE LET lens == [j \in 1..Len(base) |-> MatchLen(base, target, i, j)]
             best == IF \E j \in DOMAIN lens : lens[j] > 0
                     THEN CHOOSE j \in DOMAIN lens :
                             /\ \A n \in DOMAIN lens : lens[n] <= lens[j]
                             /\ \A n \in 1..(j - 1) : lens[n] < lens[j]
                     ELSE 0
             len == IF best = 0 THEN 0 ELSE lens[best]
         IN IF len >= 4
            THEN <<0>> \o to_be_bytes(best - 1, 4) \o to_be_bytes(len, 4)
                     \o compute_delta_from(base, target, i + len)
            ELSE <<1, target[i]>> \o compute_delta_from(base, target, i + 1)

compute_delta(base, target) == compute_delta_from(base, target, 1)

\* The header and the payload add_object hashes and stores (pack.rs:108-113).
ObjectContent(object_type, data) ==
    TypeBytes[object_type] \o <<32>> \o Decimal(Len(data)) \o <<0>> \o data

PackObject(object_type, data, offset, base_object) ==
    [object_type |-> object_type, data |-> data, offset |-> offset,
     size |-> Len(data), base_object |-> base_object]

\* The PackObject PackFile::read builds: its size is 0.
ReadPackObject(object_type, data, offset, base_object) ==
    [object_type |-> object_type, data |-> data, offset |-> offset,
     size |-> 0, base_object |-> base_object]

\* find_best_base (pack.rs:48-67): the first object, in the iteration order
\* `it` of the map, of the same type and stored whole, whose stored length is
\* nearest to the payload's; NoOid for None.
find_best_base(objs, it, object_type, data) ==
    LET diff(id) == IF Len(objs[id].data) > Len(data)
                    THEN Len(objs[id].data) - Len(data)
                    ELSE Len(data) - Len(objs[id].data)
        cands == SelectSeq(it, LAMBDA id :
                     /\ id \in DOMAIN objs
                     /\ objs[id].object_type = object_type
                     /\ objs[id].base_object = NoOid)
    IN IF cands = << >> THEN NoOid
       ELSE cands[CHOOSE n \in DOMAIN cands :
                     /\ \A m \in DOMAIN cands : diff(cands[n]) <= diff(cands[m])
                     /\ \A m \in 1..(n - 1) : diff(cands[m]) > diff(cands[n])]

\* PackFile::add_object (pack.rs:108-172): the map after the insert.
add_object(objs, it, object_type, data) ==
    LET object_id == hash_object(data, object_type)
        base_id == find_best_base(objs, it, object_type, data)
        delta == IF base_id = NoOid THEN << >> ELSE compute_delta(objs[base_id].data, data)
    IN IF base_id # NoOid /\ Len(delta) < Len(data)
       THEN Put(objs, object_id, PackObject(object_type, ZlibCells(delta), 0, base_id))
       ELSE Put(objs, object_id,
                PackObject(object_type, ZlibCells(ObjectContent(object_type, data)), 0, NoOid))

\* create_pack, the loop (pack.rs:354-390): every loose object, in the order
\* `dir` of the directory listing, is added.
RECURSIVE AddLoose(_, _, _, _)
AddLoose(objs, it, loose, dir) ==
    IF dir = << >> THEN objs
    ELSE AddLoose(add_object(objs, it, loose[Head(dir)].type, loose[Head(dir)].data),
                  it, loose, Tail(dir))

\* PackFile::write, the offsets (pack.rs:184-189): 12 for the first object,
\* and for each next one the offset before it plus the stored length of the
\* object before it.
RECURSIVE WriteOffset(_, _, _)
WriteOffset(objs, order, n) ==
    IF n = 1 THEN 12 ELSE WriteOffset(objs, order, n - 1) + objs[order[n - 1]].size

TypeByte == [commit |-> 1, tree |-> 2, blob |-> 3, tag |-> 4]

OBJ_OFS_DELTA == 6

OBJ_REF_DELTA == 7

\* PackFile::write, the pack (pack.rs:176-210): the signature, the version, the
\* count, and for each object its type byte, the id of its base when it is a
\* delta, and its stored data.
PackBytes(objs, order) ==
    Plain(<<80, 65, 67, 75>>) \o Plain(to_be_bytes(2, 4)) \o Plain(to_be_bytes(Len(order), 4))
    \o Flatten([n \in 1..Len(order) |->
                  LET obj == objs[order[n]]
                  IN IF obj.base_object # NoOid
                     THEN Plain(<<OBJ_REF_DELTA>>) \o IdCells(obj.base_object) \o obj.data
                     ELSE Plain(<<TypeByte[obj.object_type]>>) \o obj.data])

\* PackFile::write, the index (pack.rs:212-222): for each object the 20 bytes
\* of its id and the 8 bytes of its offset.
IndexBytes(objs, order) ==
    Flatten([n \in 1..Len(order) |->
                IdCells(order[n]) \o Plain(to_be_bytes(WriteOffset(objs, order, n), 8))])

IsPlain(cells) == \A j \in DOMAIN cells : cells[j].k = "b"

Values(cells) == [j \in DOMAIN cells |-> cells[j].v]

\* hex::encode of 20 bytes read from a file: the id when they are the bytes of
\* one id, and otherwise an id that names no object.
HexEncode(cells) ==
    IF /\ Len(cells) = 20
       /\ \A j \in 1..20 : cells[j].k = "id" /\ cells[j].i = j /\ cells[j].v = cells[1].v
    THEN cells[1].v
    ELSE <<"garbage", << >>>>

\* PackFile::read, one index entry (pack.rs:252-310): the id and the offset
\* read at 24 * i, and the object read from the pack at that offset.  ok is
\* false when the read fails: the offset is not made of offset bytes or is past
\* the end, the byte there is no type byte, no zlib stream starts after it, or
\* the content has no header.
ReadEntry(pack, index_data, i) ==
    LET id_cells == SubSeq(index_data, i * 24 + 1, i * 24 + 20)
        off_cells == SubSeq(index_data, i * 24 + 21, i * 24 + 28)
        object_id == HexEncode(id_cells)
        obj_offset == IF Len(off_cells) = 8 /\ IsPlain(off_cells)
                      THEN from_be_bytes(Values(off_cells)) ELSE -1
        type_ok == /\ obj_offset >= 0
                   /\ obj_offset + 1 <= Len(pack)
                   /\ pack[obj_offset + 1].k = "b"
                   /\ pack[obj_offset + 1].v \in {1, 2, 3, 4, OBJ_OFS_DELTA, OBJ_REF_DELTA}
        type_byte == pack[obj_offset + 1].v
        skip == IF type_byte = OBJ_REF_DELTA THEN 20 ELSE IF type_byte = OBJ_OFS_DELTA THEN 8 ELSE 0
        base_cells == SubSeq(pack, obj_offset + 2, obj_offset + 1 + skip)
        base_ok == Len(base_cells) = skip /\ (type_byte = OBJ_OFS_DELTA => IsPlain(base_cells))
        z == obj_offset + 2 + skip
        z_ok == z <= Len(pack) /\ pack[z].k = "z" /\ pack[z].i = 1
        decompressed == pack[z].v
        null_pos == NulPosition(decompressed)
        header_ok == null_pos # 0 /\ SplitCount(SubSeq(decompressed, 1, null_pos - 1)) = 2
    IN IF ~type_ok THEN [ok |-> FALSE]
       ELSE IF ~base_ok THEN [ok |-> FALSE]
       ELSE IF ~z_ok THEN [ok |-> FALSE]
       ELSE IF ~header_ok THEN [ok |-> FALSE]
       ELSE [ok |-> TRUE, id |-> object_id,
             obj |-> ReadPackObject(
                 IF type_byte \in {OBJ_OFS_DELTA, OBJ_REF_DELTA} THEN "delta"
                 ELSE CHOOSE t \in DOMAIN TypeByte : TypeByte[t] = type_byte,
                 SubSeq(decompressed, null_pos + 1, Len(decompressed)),
                 obj_offset,
                 IF type_byte = OBJ_REF_DELTA THEN HexEncode(base_cells)
                 ELSE IF type_byte = OBJ_OFS_DELTA THEN <<"offset", Values(base_cells)>>
                 ELSE NoOid)]

\* PackFile::read (pack.rs:227-320): the map of the objects read, unless the
\* read fails.
PackFileRead(pack, index_data) ==
    IF Len(pack) < 12 \/ Values(SubSeq(pack, 1, 4)) # <<80, 65, 67, 75>> THEN [ok |-> FALSE]
    ELSE LET object_count == from_be_bytes(Values(SubSeq(pack, 9, 12)))
             entries == [i \in 0..(object_count - 1) |-> ReadEntry(pack, index_data, i)]
         IN IF \E i \in DOMAIN entries : ~entries[i].ok THEN [ok |-> FALSE]
            ELSE [ok |-> TRUE,
                  objects |-> [id \in {entries[i].id : i \in DOMAIN entries} |->
                     entries[CHOOSE i \in DOMAIN entries :
                                /\ entries[i].id = id
                                /\ \A j \in DOMAIN entries : entries[j].id = id => j <= i].obj]]


\* read_object, the reconstruction of a delta (objects.rs:126-160): the bytes
\* up to the first one below 128 are skipped; then command 1 copies a range of
\* the base and command 2 inserts bytes of the delta, each with little-endian
\* 4-byte numbers; any other command, and a range outside its slice, fails.
RECURSIVE SkipDeltaHeader(_, _)
SkipDeltaHeader(data, pos) ==
    IF pos > Len(data) THEN pos
    ELSE IF data[pos] >= 128 THEN SkipDeltaHeader(data, pos + 1) ELSE pos + 1

RECURSIVE ApplyDelta(_, _, _, _)
ApplyDelta(data, base, pos, out) ==
    IF pos > Len(data) THEN [ok |-> TRUE, data |-> out]
    ELSE LET cmd == data[pos]
         IN IF cmd = 1 THEN
                IF pos + 8 > Len(data) THEN [ok |-> FALSE]
                ELSE LET offset == from_le_bytes(SubSeq(data, pos + 1, pos + 4))
                         size == from_le_bytes(SubSeq(data, pos + 5, pos + 8))
                     IN IF offset + size > Len(base) THEN [ok |-> FALSE]
                        ELSE ApplyDelta(data, base, pos + 9,
                                        out \o SubSeq(base, offset + 1, offset + size))
            ELSE IF cmd = 2 THEN
                IF pos + 4 > Len(data) THEN [ok |-> FALSE]
                ELSE LET size == from_le_bytes(SubSeq(data, pos + 1, pos + 4))
                     IN IF pos + 4 + size > Len(data) THEN [ok |-> FALSE]
                        ELSE ApplyDelta(data, base, pos + 5 + size,
                                        out \o SubSeq(data, pos + 5, pos + 4 + size))
            ELSE [ok |-> FALSE]

\* read_object (objects.rs:67-178) with one pack in objects/pack: the loose
\* file when there is one; otherwise the pack is read, the object is looked up
\* by id and, when it has a base, rebuilt from the base read the same way.
RECURSIVE ReadObjectPacked(_, _, _, _)
ReadObjectPacked(loose, pack, object_id, depth) ==
    IF object_id \in DOMAIN loose
    THEN [ok |-> TRUE, object_type |-> loose[object_id].type, data |-> loose[object_id].data]
    ELSE LET read == PackFileRead(pack.pack, pack.idx)
         IN IF ~read.ok THEN [ok |-> FALSE]
            ELSE IF object_id \notin DOMAIN read.objects THEN [ok |-> FALSE]
            ELSE LET pack_obj == read.objects[object_id]
                 IN IF pack_obj.base_object = NoOid
                    THEN [ok |-> TRUE, object_type |-> pack_obj.object_type, data |-> pack_obj.data]
                    ELSE IF depth = 0 \/ pack_obj.base_object[1] = "offset" THEN [ok |-> FALSE]
                    ELSE LET base_object == ReadObjectPacked(loose, pack, pack_obj.base_object, depth - 1)
                             built == IF base_object.ok
                                      THEN ApplyDelta(pack_obj.data, base_object.data,
                                                      SkipDeltaHeader(pack_obj.data, 1), << >>)
                                      ELSE [ok |-> FALSE]
                         IN IF built.ok
                            THEN [ok |-> TRUE, object_type |-> pack_obj.object_type, data |-> built.data]
                            ELSE [ok |-> FALSE]

\* A repository with up to MaxPack loose objects and no pack.
InitPack ==
    /\ HEAD = <<"ref", "master">>
    /\ heads = EmptyMap
    /\ remotes = EmptyMap
    /\ remoteHead = NoOid
    /\ \E ids \in SUBSET PackInputs :
          /\ Cardinality(ids) \in 1..MaxPack
          /\ objects = [id \in ids |-> ObjectFile(DataOf(id), TypeOf(id), "own")]
    /\ stray = EmptyMap
    /\ packs = {}
    /\ index = EmptyMap
    /\ worktree = EmptyMap
    /\ now = 0
    /\ nops = 0
    /\ last = [op |-> "init", arg |-> NoOid, res |-> [ok |-> TRUE], pre |-> EmptyMap]
    /\ srv = NoRequests

\* create_pack(objects_dir): the loose objects, listed in the order dir, are
\* added to a PackFile whose map iterates in the order it, and the pack and its
\* index are written.
CreatePack(dir, it) ==
    LET objs == AddLoose(EmptyMap, it, objects, dir) IN
    /\ Step
    /\ packs = {}
    /\ packs' = {[pack |-> PackBytes(objs, it), idx |-> IndexBytes(objs, it)]}
    /\ last' = [op |-> "create_pack", arg |-> NoOid, res |-> [ok |-> TRUE], pre |-> EmptyMap]
    /\ UNCHANGED <<HEAD, heads, remotes, remoteHead, objects, stray, index, worktree>>

\* The loose files are deleted once they are packed (mod.rs:146-155).
RemoveLoose ==
    /\ Step
    /\ packs # {}
    /\ objects # EmptyMap
    /\ objects' = RepackObjects(objects)
    /\ last' = [op |-> "remove_loose", arg |-> NoOid, res |-> [ok |-> TRUE], pre |-> objects]
    /\ UNCHANGED <<HEAD, heads, remotes, remoteHead, stray, packs, index, worktree>>

\* read_object(repo, id).  pre keeps the objects that were packed.
PackReadObject(object_id) ==
    /\ Step
    /\ packs # {}
    /\ last' = [op |-> "read_object", arg |-> object_id,
                res |-> ReadObjectPacked(objects, CHOOSE p \in packs : TRUE, object_id, 1),
                pre |-> last.pre]
    /\ UNCHANGED <<HEAD, heads, remotes, remoteHead, objects, stray, packs, index, worktree>>

NextPack ==
    \/ \E dir \in Orders(DOMAIN objects), it \in Orders(DOMAIN objects) : CreatePack(dir, it)
    \/ RemoveLoose
    \/ \E id \in PackInputs : PackReadObject(id)

SpecPack == InitPack /\ [][NextPack]_vars

\* The ids recorded in an index file, one every 28 bytes.
IndexIds(index_data) ==
    {HexEncode(SubSeq(index_data, 28 * n + 1, 28 * n + 20)) : n \in 0..((Len(index_data) \div 28) - 1)}

\* C36: every id recorded in the index of a pack written by PackFile::write,
\* read through PackFile::read and read_object when no loose file is left,
\* yields an object whose type and payload hash back to that id.
C36_PackRoundTrip ==
    (/\ last.op = "read_object"
     /\ objects = EmptyMap
     /\ last.arg \in IndexIds((CHOOSE p \in packs : TRUE).idx))
    => /\ last.res.ok
       /\ hash_object(last.res.data, last.res.object_type) = last.arg

\* A pack of one object reads back.
SingleObjectPackRoundTrip ==
    (/\ last.op = "read_object"
     /\ objects = EmptyMap
     /\ Cardinality(IndexIds((CHOOSE p \in packs : TRUE).idx)) = 1
     /\ last.arg \in IndexIds((CHOOSE p \in packs : TRUE).idx))
    => /\ last.res.ok
       /\ hash_object(last.res.data, last.res.object_type) = last.arg


\* ------------------------------------------- the lines of an edit conflict

\* The longest blob content, in characters, of the two sides of a conflict.
MaxChars == 4

Chars == {"x", "\n"}

RECURSIVE TextsOf(_)
TextsOf(n) ==
    IF n = 0 THEN {<< >>}
    ELSE TextsOf(n - 1) \cup {Append(t, c) : t \in {u \in TextsOf(n - 1) : Len(u) = n - 1}, c \in Chars}

Texts == TextsOf(MaxChars)

\* str::lines: the content split at every newline; a last line that is empty
\* is not a line.
RECURSIVE SplitLines(_, _)
SplitLines(chars, line) ==
    IF chars = << >> THEN (IF line = << >> THEN << >> ELSE <<line>>)
    ELSE IF Head(chars) = "\n" THEN <<line>> \o SplitLines(Tail(chars), << >>)
    ELSE SplitLines(Tail(chars), Append(line, Head(chars)))

lines(content) == SplitLines(content, << >>)

\* current_lines.get(i) != merge_lines.get(i), for the 1-based index n: the
\* two lines differ, or one side has no such line.
LinesDiffer(current_lines, merge_lines, n) ==
    IF n <= Len(current_lines) /\ n <= Len(merge_lines)
    THEN current_lines[n] # merge_lines[n]
    ELSE TRUE

\* RunEnd that ends every run at its first line.
RunEndFirstLine(current_lines, merge_lines, n, max_len) == n

\* merge.rs:224-233, the inner loop: the last index of the run of differing
\* lines that starts at n.
RECURSIVE RunEnd(_, _, _, _)
RunEnd(current_lines, merge_lines, n, max_len) ==
    IF n + 1 <= max_len /\ LinesDiffer(current_lines, merge_lines, n + 1)
    THEN RunEnd(current_lines, merge_lines, n + 1, max_len)
    ELSE n

\* merge.rs:213-244, the outer loop from index n on: what is printed, in
\* order; <<start>> for a single line and <<start, end>> for a range.
RECURSIVE ConflictRanges(_, _, _)
ConflictRanges(current_lines, merge_lines, n) ==
    LET max_len == IF Len(current_lines) > Len(merge_lines)
                   THEN Len(current_lines) ELSE Len(merge_lines)
    IN IF n > max_len THEN << >>
       ELSE IF LinesDiffer(current_lines, merge_lines, n)
       THEN LET conflict_start == n
                conflict_end == RunEnd(current_lines, merge_lines, n, max_len)
            IN << IF conflict_start = conflict_end THEN <<conflict_start>>
                  ELSE <<conflict_start, conflict_end>> >>
               \o ConflictRanges(current_lines, merge_lines, conflict_end + 1)
       ELSE ConflictRanges(current_lines, merge_lines, n + 1)

\* The blobs of one file on the two sides of an edit/edit conflict: two
\* different contents.
InitConflict ==
    /\ HEAD = <<"ref", "master">>
    /\ heads = EmptyMap
    /\ remotes = EmptyMap
    /\ remoteHead = NoOid
    /\ objects = EmptyMap
    /\ stray = EmptyMap
    /\ packs = {}
    /\ index = EmptyMap
    /\ worktree = EmptyMap
    /\ now = 0
    /\ nops = 0
    /\ srv = NoRequests
    /\ \E current \in Texts, merge \in Texts :
          /\ current # merge
          /\ last = [op |-> "blobs", arg |-> [current |-> current, merge |-> merge],
                     res |-> << >>, pre |-> EmptyMap]

\* merge.rs:204-244 for the two blobs: the ranges are printed.
ReportConflict ==
    /\ last.op = "blobs"
    /\ last' = [last EXCEPT !.op = "conflict",
                            !.res = ConflictRanges(lines(last.arg.current), lines(last.arg.merge), 1)]
    /\ UNCHANGED <<HEAD, heads, remotes, remoteHead, objects, stray, packs, index, worktree, now, nops, srv>>

NextConflict == ReportConflict

SpecConflict == InitConflict /\ [][NextConflict]_vars

\* The maximal runs of 1-based indices at which the lines of the two contents
\* differ, a line missing on the shorter side counting as different.
DifferingRuns(current, merge) ==
    LET cl == lines(current)
        ml == lines(merge)
        n == IF Len(cl) > Len(ml) THEN Len(cl) ELSE Len(ml)
        d(i) == IF i \in DOMAIN cl /\ i \in DOMAIN ml THEN cl[i] # ml[i] ELSE TRUE
    IN {r \in (1..n) \X (1..n) :
           /\ r[1] <= r[2]
           /\ \A i \in r[1]..r[2] : d(i)
           /\ (r[1] > 1 => ~d(r[1] - 1))
           /\ (r[2] < n => ~d(r[2] + 1))}

\* C37: the line ranges reported for an edit/edit conflict are exactly the
\* maximal runs of differing lines, in ascending order, a run of one line as
\* the single number and a longer run as [start, end].
C37_ConflictRangesAreMaximalRuns ==
    last.op = "conflict" =>
        LET runs == DifferingRuns(last.arg.current, last.arg.merge)
            printed == last.res
        IN /\ {IF r[1] = r[2] THEN <<r[1]>> ELSE r : r \in runs} = Range(printed)
           /\ Len(printed) = Cardinality(runs)
           /\ \A i \in 1..(Len(printed) - 1) : printed[i][1] < printed[i + 1][1]

\* Two runs were reported, with an equal line between them, the second past
\* the end of the shorter side.
C37_Witness ==
    /\ last.op = "conflict"
    /\ Len(last.res) = 2
    /\ last.res[2][1] > Len(lines(last.arg.merge))


\* C38: an attached HEAD names a branch that exists under refs/heads/, so
\* get_head_commit succeeds; deleting a branch never leaves HEAD on the
\* deleted branch.
C38_AttachedHeadNamesLiveBranch ==
    HEAD[1] = "ref" =>
        /\ HEAD[2] \in DOMAIN heads
        /\ get_head_commit(HEAD, heads) # NoOid


\* ------------------------------------- find_merge_base, one iteration a step

\* The two loops of find_merge_base (merge.rs:75-132) run one iteration per
\* step.  `last` holds the locals: the loop that is running, the queue, the two
\* sets, and the commits each loop has read the parents of, in order.

\* Seen that never finds a commit in the set.
SeenNever(set, commit_id) == FALSE

\* ancestors1.contains(&commit_id) and visited.contains(&commit_id).
Seen(set, commit_id) == commit_id \in set

InitWalk ==
    /\ HEAD = <<"ref", "master">>
    /\ heads = EmptyMap
    /\ remotes = EmptyMap
    /\ remoteHead = NoOid
    /\ \E sh \in Shapes, missing \in {{}} \cup {{i} : i \in 1..MaxCommits} :
          /\ objects = GraphStore(sh, missing)
          /\ \E a \in 1..MaxCommits, b \in 1..MaxCommits :
                last = [op |-> "walk1", arg |-> <<NodeId(sh, a), NodeId(sh, b)>>,
                        res |-> NoOid, pre |-> EmptyMap,
                        queue |-> <<NodeId(sh, a)>>, ancestors1 |-> {}, visited |-> {},
                        expanded1 |-> << >>, expanded2 |-> << >>]
    /\ stray = EmptyMap
    /\ packs = {}
    /\ index = EmptyMap
    /\ worktree = EmptyMap
    /\ now = 0
    /\ nops = 0
    /\ srv = NoRequests

\* merge.rs:83-101, one iteration of the first loop.
Walk1Step ==
    /\ last.op = "walk1"
    /\ last.queue # << >>
    /\ LET commit_id == last.queue[Len(last.queue)]
           rest == SubSeq(last.queue, 1, Len(last.queue) - 1)
       IN IF Seen(last.ancestors1, commit_id)
          THEN last' = [last EXCEPT !.queue = rest]
          ELSE last' = [last EXCEPT !.queue = rest \o ParentsOf(objects, commit_id),
                                    !.ancestors1 = @ \cup {commit_id},
                                    !.expanded1 = Append(@, commit_id)]
    /\ UNCHANGED <<HEAD, heads, remotes, remoteHead, objects, stray, packs, index, worktree, now, nops, srv>>

\* merge.rs:103-105: the first loop has ended and the second is set up.
Walk1End ==
    /\ last.op = "walk1"
    /\ last.queue = << >>
    /\ last' = [last EXCEPT !.op = "walk2", !.queue = <<last.arg[2]>>]
    /\ UNCHANGED <<HEAD, heads, remotes, remoteHead, objects, stray, packs, index, worktree, now, nops, srv>>

\* merge.rs:107-129, one iteration of the second loop.
Walk2Step ==
    /\ last.op = "walk2"
    /\ last.queue # << >>
    /\ LET commit_id == last.queue[Len(last.queue)]
           rest == SubSeq(last.queue, 1, Len(last.queue) - 1)
       IN IF Seen(last.visited, commit_id)
          THEN last' = [last EXCEPT !.queue = rest]
          ELSE IF commit_id \in last.ancestors1
          THEN last' = [last EXCEPT !.op = "done", !.res = commit_id, !.queue = rest,
                                    !.visited = @ \cup {commit_id}]
          ELSE last' = [last EXCEPT !.queue = rest \o ParentsOf(objects, commit_id),
                                    !.visited = @ \cup {commit_id},
                                    !.expanded2 = Append(@, commit_id)]
    /\ UNCHANGED <<HEAD, heads, remotes, remoteHead, objects, stray, packs, index, worktree, now, nops, srv>>

\* merge.rs:131: the second loop has ended without a common commit.
Walk2End ==
    /\ last.op = "walk2"
    /\ last.queue = << >>
    /\ last' = [last EXCEPT !.op = "done", !.res = NoOid]
    /\ UNCHANGED <<HEAD, heads, remotes, remoteHead, objects, stray, packs, index, worktree, now, nops, srv>>

NextWalk == Walk1Step \/ Walk1End \/ Walk2Step \/ Walk2End

\* The function runs on one thread and nothing stops it: an iteration that can
\* be taken is taken.
SpecWalk == InitWalk /\ [][NextWalk]_vars /\ WF_vars(NextWalk)

NoRepeat(seq) == \A i, j \in DOMAIN seq : seq[i] = seq[j] => i = j

\* C39: find_merge_base terminates on every commit graph, reads the parents
\* of a commit at most once in each of its two walks, and, when a commit of
\* the graph is missing, goes on with the rest of the walk and returns what the
\* walk over the readable commits gives.
C39_MergeBaseWalkTerminates ==
    /\ [](/\ NoRepeat(last.expanded1)
          /\ NoRepeat(last.expanded2)
          /\ last.op = "done" => last.res = find_merge_base(objects, last.arg[1], last.arg[2]))
    /\ <>(last.op = "done")

\* The walk ended with a common commit although a parent of a commit it read
\* in the first walk is missing, having reached a commit along two paths.
C39_Witness ==
    /\ last.op = "done"
    /\ last.res # NoOid
    /\ \E c \in Range(last.expanded1) :
          /\ c \in DOMAIN objects
          /\ \E p \in Range(ParentsOf(objects, c)) : p \notin DOMAIN objects
    /\ \E c \in Range(last.expanded1) :
          /\ c \in DOMAIN objects
          /\ Len(ParentsOf(objects, c)) = 2

=============================================================================
